---- MODULE Spec2Model ----
(***************************************************************************)
(* Model of pyretries: the retry orchestrators Retry / AsyncRetry of       *)
(* src/pyretries/retry.py driving a chain of counting strategies of        *)
(* src/pyretries/strategy.py against an operation whose outcome on every   *)
(* attempt is an input.                                                    *)
(*                                                                         *)
(* One run of BaseRetry.__call__ is split at the two calls of its loop     *)
(* body: Exec (self.exec(state): before-hooks, the operation, on-failure   *)
(* hook, after-hooks, end_time) and Apply (self.apply(state) followed, on  *)
(* a False result, by the loop exit, save_state and the return).           *)
(*                                                                         *)
(* Python values are records tagged by "type" so that None, returned       *)
(* values and exception instances can be compared with each other.  An     *)
(* exception instance carries the number of the invocation that raised it, *)
(* so two failures of the same class are distinct objects.  Exception      *)
(* instances are truthy, as instances of the built-in classes are.         *)
(*                                                                         *)
(* Further specifications over the same variables: SpecAnyOperation (an    *)
(* operation of either kind handed to either orchestrator), SpecEventLoop  *)
(* (AsyncRetry over delaying strategies as one task of an event loop, the  *)
(* step that applies a strategy ending inside time.sleep) and SpecDirect   *)
(* (one strategy object of any class applied directly by its caller).      *)
(* SpecFailures lets a hook or the operation cut an attempt short.        *)
(* SpecMatching, SpecPaced and SpecKinds run one orchestrator over         *)
(* value-matching strategies, over delaying strategies with hooks, and     *)
(* with base classes in on_exceptions.                                     *)
(*                                                                         *)
(* Several runs side by side use the variables runs, orchs, funcs and      *)
(* twin over one heap of strategy objects (strat): SpecBothClasses (a run  *)
(* and the same run by the other class), SpecConcurrent and                *)
(* SpecSharedOrchestrator (two tasks of an event loop on two orchestrators *)
(* or on one), SpecReuse and SpecDecorated (two calls in turn on one       *)
(* orchestrator, or through the decorator), SpecCounting (counting         *)
(* strategies applied directly or over two runs).                          *)
(***************************************************************************)
EXTENDS Integers, Sequences, FiniteSets, TLC

\* ---- bounds of the model ------------------------------------------------
MaxStrategies == 2
MaxLimit == 2
MaxHooks == 2
MaxSeconds == 2
MaxJitter == 1
MaxOtherSteps == 2

\* ---- value universe -----------------------------------------------------
ExcKinds == {"KeyError", "ValueError"}
Values == {"a", "b"}

None == [type |-> "none"]
Val(v) == [type |-> "val", v |-> v]
Exc(k, n) == [type |-> "exc", kind |-> k, id |-> n]
Coroutine == [type |-> "val", v |-> "coroutine"]

Event(e, i, a) == [ev |-> e, i |-> i, arg |-> a]

RECURSIVE Reverse(_)
Reverse(s) == IF s = <<>> THEN <<>> ELSE Append(Reverse(Tail(s)), Head(s))

RECURSIVE SumLimits(_, _)
SumLimits(ss, n) == IF n = 0 THEN 0 ELSE ss[n].attempts + SumLimits(ss, n - 1)

\* ---- RetryState ---------------------------------------------------------
\* RetryState.strategy is None: no strategy is active
NoStrategy == 0

RetryState(t) ==
    [start_time |-> t, end_time |-> 0, strategy |-> NoStrategy,
     current_attempts |-> 0, returned_value |-> None, exception |-> None]

raised(st) == st.exception.type = "exc"

\* faulty variant: clearing the record also resets its attempt counter
clear_attempts_too(st) ==
    [st EXCEPT !.exception = None, !.returned_value = None, !.current_attempts = 0]
\* faulty variant: only the returned value is cleared
clear_keep_exception(st) == [st EXCEPT !.returned_value = None]
\* RetryState.clear
clear(st) == [st EXCEPT !.exception = None, !.returned_value = None]

\* ---- strategies (counting variants) -------------------------------------
\* Strategy objects are records: `kind` is the class, `attempts` the limit
\* (the field max_attempts of the classes that name it so) and
\* `current_attempt` the counter.
NewStrategy(n) == [kind |-> "NoopStrategy", attempts |-> n, current_attempt |-> 0]

\* faulty variant: off by one: stops only past the limit
should_stop_gt(s) == s.current_attempt > s.attempts
\* Strategy.should_stop of NoopStrategy, and in the same words of
\* StopAfterAttemptStrategy, SleepStrategy and ExponentialBackoffStrategy
should_stop(s) == s.current_attempt >= s.attempts

\* faulty variant: the attempt is counted without looking at the limit
eval_unchecked(s, value) ==
    [raised |-> FALSE, s |-> [s EXCEPT !.current_attempt = @ + 1], cause |-> None]
\* Strategy.eval(value): raises RetryStrategyExausted when already stopped,
\* otherwise counts one attempt and returns True.
eval(s, value) ==
    IF should_stop(s)
    THEN [raised |-> TRUE, s |-> s,
          cause |-> IF value.type = "exc" THEN value ELSE None]
    ELSE [raised |-> FALSE, s |-> [s EXCEPT !.current_attempt = @ + 1],
          cause |-> None]

\* ---- strategies (the other variants) ------------------------------------
\* max_attempts is None: StopWhenReturnValueStrategy without a limit
NoLimit == -1

StopAfterAttemptStrategy(n) ==
    [kind |-> "StopAfterAttemptStrategy", attempts |-> n, current_attempt |-> 0]

SleepStrategy(seconds, n) ==
    [kind |-> "SleepStrategy", seconds |-> seconds, attempts |-> n,
     current_attempt |-> 0]

\* `jitter` is what random.uniform(0, 1) returns at the next application, in
\* the unit of base_delay
ExponentialBackoffStrategy(n, base_delay) ==
    [kind |-> "ExponentialBackoffStrategy", base_delay |-> base_delay,
     attempts |-> n, current_attempt |-> 0, delay |-> 0, jitter |-> 0]

StopWhenReturnValueStrategy(expected, n) ==
    [kind |-> "StopWhenReturnValueStrategy", expected |-> expected,
     attempts |-> n, current_attempt |-> 0]

\* ExponentialBackoff of the package `retries`
ExponentialBackoff(n, base_delay) ==
    [kind |-> "ExponentialBackoff", base_delay |-> base_delay,
     attempts |-> n, current_attempt |-> 0, delay |-> 0, jitter |-> 0]

\* what an application does besides counting: calls of random.uniform and
\* of time.sleep, the latter with the counter as it stands at the call
Effect(e, a) == [ev |-> e, arg |-> a]
Sleep(seconds, s) ==
    Effect("sleep", [seconds |-> seconds, attempt |-> s.current_attempt])

\* faulty variant: `raise RetryStrategyExausted from None`
Exausted_from_none(s, value) ==
    [raised |-> TRUE, s |-> s, ret |-> FALSE, effects |-> <<>>, cause |-> None]
\* the result of an application: RetryStrategyExausted raised (with its
\* __cause__) or the boolean returned, the strategy as the call left it, and
\* the effects of the call in order
Exausted(s, value) ==
    [raised |-> TRUE, s |-> s, ret |-> FALSE, effects |-> <<>>,
     cause |-> IF value.type = "exc" THEN value ELSE None]
Returned(s, ret, effects) ==
    [raised |-> FALSE, s |-> s, ret |-> ret, effects |-> effects, cause |-> None]

\* StopAfterAttemptStrategy.eval
StopAfterAttemptStrategy_eval(s, value) ==
    IF should_stop(s)
    THEN Exausted(s, value)
    ELSE Returned([s EXCEPT !.current_attempt = @ + 1], TRUE, <<>>)

\* faulty variant: the delay starts before the attempt is counted
SleepStrategy_eval_sleep_first(s, value) ==
    IF should_stop(s)
    THEN Exausted(s, value)
    ELSE Returned([s EXCEPT !.current_attempt = @ + 1], TRUE,
                  <<Sleep(s.seconds, s)>>)
\* SleepStrategy.eval
SleepStrategy_eval(s, value) ==
    IF should_stop(s)
    THEN Exausted(s, value)
    ELSE LET s1 == [s EXCEPT !.current_attempt = @ + 1]
         IN  Returned(s1, TRUE, <<Sleep(s1.seconds, s1)>>)

\* faulty variant: the delay grows on the previous delay
backoff_cumulative(s) == s.delay + s.base_delay * 2 ^ s.current_attempt + s.jitter
\* `self.base_delay * 2**self.current_attempt + random.uniform(0, 1)`
backoff(s) == s.base_delay * 2 ^ s.current_attempt + s.jitter

\* ExponentialBackoffStrategy.eval
ExponentialBackoffStrategy_eval(s, value) ==
    IF should_stop(s)
    THEN Exausted(s, value)
    ELSE LET s1 == [s EXCEPT !.current_attempt = @ + 1]
             s2 == [s1 EXCEPT !.delay = backoff(s1)]
         IN  Returned(s2, TRUE, <<Effect("uniform", s.jitter), Sleep(s2.delay, s2)>>)

\* faulty variant: a missing max_attempts is compared like a number
StopWhenReturnValueStrategy_should_stop_unset(s) ==
    s.current_attempt >= s.attempts
\* StopWhenReturnValueStrategy.should_stop
StopWhenReturnValueStrategy_should_stop(s) ==
    s.attempts # NoLimit /\ s.current_attempt >= s.attempts

\* faulty variant: `return value == self.expected`
matches_inverted(value, expected) == value = expected
\* `return not value == self.expected`
matches(value, expected) == ~(value = expected)

\* StopWhenReturnValueStrategy.eval
StopWhenReturnValueStrategy_eval(s, value) ==
    IF StopWhenReturnValueStrategy_should_stop(s)
    THEN Exausted(s, value)
    ELSE LET s1 == IF s.attempts # NoLimit
                   THEN [s EXCEPT !.current_attempt = @ + 1] ELSE s
         IN  Returned(s1, matches(value, s.expected), <<>>)

\* ExponentialBackoff.should_stop of the package `retries`
ExponentialBackoff_should_stop(s) == s.current_attempt > s.attempts

\* ExponentialBackoff.maybe_apply of the package `retries`
ExponentialBackoff_maybe_apply(s, value) ==
    IF ExponentialBackoff_should_stop(s)
    THEN Exausted(s, value)
    ELSE LET s1 == [s EXCEPT !.current_attempt = @ + 1]
             s2 == [s1 EXCEPT !.delay = backoff(s1)]
         IN  Returned(s2, TRUE, <<Effect("uniform", s.jitter), Sleep(s2.delay, s2)>>)

\* faulty variant: the orchestrator never sees a strategy as stopped
Strategy_should_stop_never(s) == FALSE
\* `strategy.should_stop`, by the class of the object
Strategy_should_stop(s) ==
    CASE s.kind = "StopWhenReturnValueStrategy" ->
            StopWhenReturnValueStrategy_should_stop(s)
      [] s.kind = "ExponentialBackoff" -> ExponentialBackoff_should_stop(s)
      [] OTHER -> should_stop(s)

\* `strategy.eval(value)`, by the class of the object
Strategy_eval(s, value) ==
    CASE s.kind = "StopAfterAttemptStrategy" -> StopAfterAttemptStrategy_eval(s, value)
      [] s.kind = "SleepStrategy" -> SleepStrategy_eval(s, value)
      [] s.kind = "ExponentialBackoffStrategy" ->
            ExponentialBackoffStrategy_eval(s, value)
      [] s.kind = "StopWhenReturnValueStrategy" ->
            StopWhenReturnValueStrategy_eval(s, value)
      [] s.kind = "ExponentialBackoff" -> ExponentialBackoff_maybe_apply(s, value)
      [] OTHER -> LET r == eval(s, value)
                  IN  [raised |-> r.raised, s |-> r.s, ret |-> ~r.raised,
                       effects |-> <<>>, cause |-> r.cause]

\* ---- BaseRetry ----------------------------------------------------------
\* faulty variant: the caller's list kept as it is
reversed_identity(s) == s
\* list(reversed(strategies)) of BaseRetry.__init__
reversed(s) == Reverse(s)

\* faulty variant: the item is read and left in the list
pop_peek(chain) == [item |-> chain[Len(chain)], rest |-> chain]
\* self.strategies.pop(): the last item and the list without it
pop(chain) ==
    [item |-> chain[Len(chain)], rest |-> SubSeq(chain, 1, Len(chain) - 1)]

\* faulty variant: the active slot is never cleared
release_never(st, s) == st
\* `if state.strategy.should_stop: state.strategy = None` after an evaluation
release(st, s) ==
    IF Strategy_should_stop(s) THEN [st EXCEPT !.strategy = NoStrategy] ELSE st

\* BaseRetry.exec_strategy(state) on the chain `chain` and the strategy
\* objects `ss`.  The result tells whether RetryExaustedError was raised and
\* gives the record, chain and strategies as the call left them; `during` is
\* the record as it stands while the strategy is being applied.
exec_strategy(st, chain, ss) ==
    LET empty  == st.strategy = NoStrategy /\ Len(chain) = 0
        pulled == st.strategy = NoStrategy /\ Len(chain) > 0
        st1    == IF pulled THEN [st EXCEPT !.strategy = pop(chain).item] ELSE st
        chain1 == IF pulled THEN pop(chain).rest ELSE chain
    IN  IF empty
        THEN [raised |-> TRUE, st |-> st, chain |-> chain, ss |-> ss, events |-> <<>>]
        ELSE IF Strategy_should_stop(ss[st1.strategy])
        THEN [raised |-> TRUE, st |-> st1, chain |-> chain1, ss |-> ss, events |-> <<>>]
        ELSE LET id  == st1.strategy
                 r   == Strategy_eval(ss[id], st1.returned_value)
                 ev  == <<Event("eval", id, st1.returned_value)>>
                        \o [n \in 1..Len(r.effects) |->
                              Event(r.effects[n].ev, id, r.effects[n].arg)]
                 ss2 == [ss EXCEPT ![id] = r.s]
                 st2 == [st1 EXCEPT !.current_attempts = @ + 1]
             IN  IF r.raised
                 THEN [raised |-> TRUE, st |-> st1, chain |-> chain1, ss |-> ss,
                       events |-> ev]
                 ELSE [raised |-> FALSE, st |-> release(st2, ss2[id]),
                       chain |-> chain1, ss |-> ss2, events |-> ev,
                       during |-> st1]

\* faulty variant: `raise err from None`
Cause_none(st) == None
\* `raise err from state.exception if state.raised else None`
Cause(st) == IF raised(st) THEN st.exception ELSE None

\* The classes of the failures and their base classes below Exception, as
\* Python has them: KeyError is a LookupError.
Bases(k) == IF k = "KeyError" THEN {"KeyError", "LookupError"} ELSE {k}

\* faulty variant: the filter works as an except clause does, by isinstance
Eligible_isinstance(exception, on_exc) ==
    on_exc = {} \/ Bases(exception.kind) \cap on_exc # {}
\* faulty variant: the filter is ignored
Eligible_any(exception, on_exc) == TRUE
\* `exc not in (self.on_exceptions or [exc])`, by exact class
Eligible(exception, on_exc) ==
    exception.kind \in (IF on_exc = {} THEN {exception.kind} ELSE on_exc)

\* BaseRetry.apply(state): outcome "False" / "True" (the returned boolean) or
\* "raise" (RetryExaustedError, with its __cause__).
apply(st, chain, ss, on_exc) ==
    IF ~raised(st)
    THEN [outcome |-> "False", cause |-> None, st |-> st, chain |-> chain,
          ss |-> ss, events |-> <<>>]
    ELSE IF ~Eligible(st.exception, on_exc)
    THEN [outcome |-> "raise", cause |-> Cause(st), st |-> st, chain |-> chain,
          ss |-> ss, events |-> <<>>]
    ELSE LET r == exec_strategy(st, chain, ss)
         IN  IF r.raised
             THEN [outcome |-> "raise", cause |-> Cause(r.st), st |-> r.st,
                   chain |-> r.chain, ss |-> r.ss, events |-> r.events]
             ELSE [outcome |-> "True", cause |-> None, st |-> clear(r.st),
                   chain |-> r.chain, ss |-> r.ss, events |-> r.events,
                   during |-> r.during]

\* faulty variant: the before-hooks run last to first
_pre_exec_backwards(tr, hooks) ==
    tr \o [i \in 1..Len(hooks) |-> Event("before", hooks[Len(hooks) + 1 - i], None)]
\* BaseRetry._pre_exec: every before-hook, in list order, without arguments
_pre_exec(tr, hooks) ==
    tr \o [i \in 1..Len(hooks) |-> Event("before", hooks[i], None)]

\* faulty variant: the failure hook runs after the after-hooks
_post_exec_hook_last(st, exception, tr, hooks, onfail, t) ==
    LET failed == exception.type # "none"
        st1 == IF failed THEN [st EXCEPT !.exception = exception] ELSE st
        arg == IF st1.exception.type # "none" THEN st1.exception
               ELSE st1.returned_value
        tr1 == tr \o [i \in 1..Len(hooks) |-> Event("after", hooks[i], arg)]
        tr2 == IF failed /\ onfail
               THEN Append(tr1, Event("onfail", 0, exception)) ELSE tr1
    IN  [st |-> [st1 EXCEPT !.end_time = t], tr |-> tr2]
\* BaseRetry._post_exec(state, exception)
_post_exec(st, exception, tr, hooks, onfail, t) ==
    LET failed == exception.type # "none"
        st1 == IF failed THEN [st EXCEPT !.exception = exception] ELSE st
        tr1 == IF failed /\ onfail
               THEN Append(tr, Event("onfail", 0, exception)) ELSE tr
        arg == IF st1.exception.type # "none" THEN st1.exception
               ELSE st1.returned_value
        tr2 == tr1 \o [i \in 1..Len(hooks) |-> Event("after", hooks[i], arg)]
    IN  [st |-> [st1 EXCEPT !.end_time = t], tr |-> tr2]

\* Retry.exec(state) when the invocation of the operation yields `o`.  Calling
\* a coroutine function without awaiting it returns a coroutine object.
Retry_exec(st, o, coro, bh, ah, onfail, t) ==
    LET tr0 == _pre_exec(<<>>, bh)
        got == IF coro THEN Coroutine ELSE o
        st1 == IF got.type = "val" THEN [st EXCEPT !.returned_value = got] ELSE st
        exception == IF got.type = "exc" THEN got ELSE None
        p == _post_exec(st1, exception, Append(tr0, Event("call", 0, None)),
                        ah, onfail, t)
    IN  [assertion |-> FALSE, st |-> p.st, tr |-> p.tr, got |-> got]

\* faulty variant: the operation is called and not awaited
AsyncRetry_exec_unawaited(st, o, coro, bh, ah, onfail, t) ==
    Retry_exec(st, o, coro, bh, ah, onfail, t)
\* AsyncRetry.exec(state): asserts a coroutine function, then as Retry.exec
\* with the operation awaited.
AsyncRetry_exec(st, o, coro, bh, ah, onfail, t) ==
    IF ~coro
    THEN [assertion |-> TRUE, st |-> st, tr |-> <<>>, got |-> None]
    ELSE LET tr0 == _pre_exec(<<>>, bh)
             st1 == IF o.type = "val" THEN [st EXCEPT !.returned_value = o] ELSE st
             exception == IF o.type = "exc" THEN o ELSE None
             p == _post_exec(st1, exception, Append(tr0, Event("call", 0, None)),
                             ah, onfail, t)
         IN  [assertion |-> FALSE, st |-> p.st, tr |-> p.tr, got |-> o]

\* ---- attempts that a hook or the operation cuts short -------------------
\* Where a hook can raise in an attempt that produces `got`: the k-th
\* before-hook, the failure hook, or the k-th after-hook.
FailPoints(got, bh, ah, onfail) ==
    {[at |-> "before", k |-> k] : k \in 1..Len(bh)}
    \cup (IF got.type = "exc" /\ onfail THEN {[at |-> "onfail", k |-> 0]} ELSE {})
    \cup {[at |-> "after", k |-> k] : k \in 1..Len(ah)}

\* the exception the hook at `f` raises
HookError(f) == [type |-> "exc", kind |-> "HookError", id |-> f]

\* faulty variant: the remaining before-hooks still run after the failure
_pre_exec_raising_through(tr, hooks, k) ==
    tr \o [i \in 1..Len(hooks) |-> Event("before", hooks[i], None)]
\* BaseRetry._pre_exec when the k-th before-hook raises: the loop over the
\* hooks ends there
_pre_exec_raising(tr, hooks, k) ==
    tr \o [i \in 1..k |-> Event("before", hooks[i], None)]

\* BaseRetry._post_exec when the failure hook (f.at = "onfail") or the k-th
\* after-hook (f.at = "after") raises: the statements after the call of that
\* hook, the write of end_time among them, are not executed
_post_exec_raising(st, exception, tr, hooks, onfail, f) ==
    LET failed == exception.type # "none"
        st1 == IF failed THEN [st EXCEPT !.exception = exception] ELSE st
        tr1 == IF failed /\ onfail
               THEN Append(tr, Event("onfail", 0, exception)) ELSE tr
        arg == IF st1.exception.type # "none" THEN st1.exception
               ELSE st1.returned_value
    IN  IF f.at = "onfail"
        THEN [st |-> st1, tr |-> tr1]
        ELSE [st |-> st1,
              tr |-> tr1 \o [i \in 1..f.k |-> Event("after", hooks[i], arg)]]

\* Retry.exec / AsyncRetry.exec (the two differ in the await only) when a
\* hook raises at `f` in an attempt whose invocation yields `got`; a failing
\* before-hook leaves _pre_exec before the operation is invoked
exec_hook_raises(st, got, bh, ah, onfail, f) ==
    IF f.at = "before"
    THEN [st |-> st, tr |-> _pre_exec_raising(<<>>, bh, f.k), invoked |-> FALSE]
    ELSE LET tr0 == _pre_exec(<<>>, bh)
             st1 == IF got.type = "val" THEN [st EXCEPT !.returned_value = got]
                    ELSE st
             exception == IF got.type = "exc" THEN got ELSE None
             p == _post_exec_raising(st1, exception,
                                     Append(tr0, Event("call", 0, None)),
                                     ah, onfail, f)
         IN  [st |-> p.st, tr |-> p.tr, invoked |-> TRUE]

\* exceptions outside the Exception hierarchy that can surface in the
\* operation: the cancellation of the task, an interrupt, and the
\* RetryExaustedError of a run nested in the operation
BaseKinds == {"CancelledError", "KeyboardInterrupt", "RetryExaustedError"}
BaseExc(k, n) == [type |-> "base", kind |-> k, id |-> n]

\* faulty variant: `except BaseException as err`
Caught_base(o) == o.type \in {"exc", "base"}
\* `except Exception as err` of exec
Caught(o) == o.type = "exc"

\* Retry.exec / AsyncRetry.exec when the invocation raises `o`: an exception
\* the except clause does not catch leaves exec from inside the try
exec_raises(st, o, bh, ah, onfail, t) ==
    LET tr0 == Append(_pre_exec(<<>>, bh), Event("call", 0, None))
    IN  IF Caught(o)
        THEN LET p == _post_exec(st, o, tr0, ah, onfail, t)
             IN  [escaped |-> FALSE, st |-> p.st, tr |-> p.tr]
        ELSE [escaped |-> TRUE, st |-> st, tr |-> tr0]

\* number of events `e` of hook `i` in a trace
Count(tr, e, i) == Cardinality({n \in 1..Len(tr) : tr[n].ev = e /\ tr[n].i = i})


VARIABLES
    mode,                 \* "sync" (Retry) or "async" (AsyncRetry)
    isCoro,               \* inspect.iscoroutinefunction(func)
    on_exceptions,        \* BaseRetry.on_exceptions; {} stands for None
    before_hooks,         \* BaseRetry.before_hooks, a sequence of hook ids
    after_hooks,          \* BaseRetry.after_hooks, a sequence of hook ids
    retry_exception_hook, \* TRUE iff BaseRetry.retry_exception_hook is set
    strategies,           \* BaseRetry.strategies: the reversed list, popped at its end
    strat,                \* the strategy objects: id -> [attempts, current_attempt]
    state,                \* the RetryState of the run, None before __call__
    func_state,           \* attribute "state" of the operation, None while unset
    pc,                   \* position of the run in __call__
    result,               \* what __call__ returned or raised, None while running
    calls,                \* number of invocations of the operation
    evals,                \* number of Strategy.eval calls made by the orchestrator
    hookCalls,            \* calls per hook: [before: id -> n, after: id -> n, onfail: n]
    trace,                \* hook, operation and strategy events of the current attempt
    lastOutcome,          \* what the latest invocation of the operation produced
    now,                  \* logical wall clock read by datetime.now()
    others,               \* steps taken by the other tasks of the event loop
    runs,                 \* several runs side by side: what each __call__ holds
    orchs,                \* their orchestrator objects: class and fields
    funcs,                \* their operation objects: kind and attribute "state"
    twin                  \* per run, the same run made on objects of its own

vars == <<mode, isCoro, on_exceptions, before_hooks, after_hooks,
          retry_exception_hook, strategies, strat, state, func_state, pc,
          result, calls, evals, hookCalls, trace, lastOutcome, now, others,
          runs, orchs, funcs, twin>>

\* the objects of the specifications of several runs
tasks == <<runs, orchs, funcs, twin>>

config == <<mode, isCoro, on_exceptions, before_hooks, after_hooks,
            retry_exception_hook>>

\* ---- construction -------------------------------------------------------
Chains ==
    UNION {[1..k -> {NewStrategy(n) : n \in 0..MaxLimit}] : k \in 0..MaxStrategies}

HookLists == {[i \in 1..n |-> i] : n \in 0..MaxHooks}

\* no hook or one
FewHooks == {h \in HookLists : Len(h) <= 1}

\* BaseRetry.__init__ for the caller-supplied strategies `ss` (ids in caller
\* order), the on_exceptions argument and the hooks
BaseRetry_init(ss, on_exc, bh, ah, onfail) ==
    /\ strategies = reversed([i \in 1..Len(ss) |-> i])
    /\ strat = ss
    /\ on_exceptions = on_exc
    /\ before_hooks = bh
    /\ after_hooks = ah
    /\ retry_exception_hook = onfail

InitRun ==
    /\ state = None
    /\ func_state = None
    /\ pc = "Pending"
    /\ result = None
    /\ calls = 0
    /\ evals = 0
    /\ hookCalls = [before |-> [i \in 1..Len(before_hooks) |-> 0],
                    after |-> [i \in 1..Len(after_hooks) |-> 0],
                    onfail |-> 0]
    /\ trace = <<>>
    /\ lastOutcome = None
    /\ now = 1
    /\ others = 0
    /\ runs = <<>> /\ orchs = <<>> /\ funcs = <<>> /\ twin = <<>>

\* An orchestrator of either kind, built over fresh strategies, and an
\* operation of the matching kind.
Init ==
    /\ mode \in {"sync", "async"}
    /\ isCoro = (mode = "async")
    /\ \E ss \in Chains, on_exc \in SUBSET ExcKinds, bh \in HookLists,
          ah \in HookLists, onfail \in BOOLEAN :
            BaseRetry_init(ss, on_exc, bh, ah, onfail)
    /\ InitRun

\* ---- the run ------------------------------------------------------------
\* what one invocation of the operation can produce
Outcomes(n) == {Val(v) : v \in Values} \cup {Exc(k, n) : k \in ExcKinds}

\* __call__ up to the loop: the RetryState is built
Call ==
    /\ pc = "Pending"
    /\ state' = RetryState(now)
    /\ pc' = "Attempting"
    /\ UNCHANGED <<config, strategies, strat, func_state, result, calls, evals,
                   hookCalls, trace, lastOutcome, now, others, tasks>>

\* self.exec(state) of the loop body, the operation producing `o`
Exec ==
    /\ pc = "Attempting"
    /\ \E o \in Outcomes(calls + 1) :
        LET r == IF mode = "async"
                 THEN AsyncRetry_exec(state, o, isCoro, before_hooks, after_hooks,
                                      retry_exception_hook, now + 1)
                 ELSE Retry_exec(state, o, isCoro, before_hooks, after_hooks,
                                 retry_exception_hook, now + 1)
        IN  /\ state' = r.st
            /\ trace' = r.tr
            /\ calls' = calls + Count(r.tr, "call", 0)
            /\ hookCalls' =
                 [before |-> [i \in DOMAIN hookCalls.before |->
                                 hookCalls.before[i] + Count(r.tr, "before", i)],
                  after |-> [i \in DOMAIN hookCalls.after |->
                                 hookCalls.after[i] + Count(r.tr, "after", i)],
                  onfail |-> hookCalls.onfail + Count(r.tr, "onfail", 0)]
            /\ lastOutcome' = IF r.assertion THEN lastOutcome ELSE r.got
            /\ pc' = IF r.assertion THEN "Aborted" ELSE "Evaluating"
            /\ result' = IF r.assertion
                         THEN [type |-> "raise", exc |-> "AssertionError",
                               cause |-> None]
                         ELSE result
    /\ now' = now + 1
    /\ UNCHANGED <<config, strategies, strat, func_state, evals, others, tasks>>

\* the counters of the hooks after the events of `tr`
Counted(hc, tr) ==
    [before |-> [i \in DOMAIN hc.before |-> hc.before[i] + Count(tr, "before", i)],
     after |-> [i \in DOMAIN hc.after |-> hc.after[i] + Count(tr, "after", i)],
     onfail |-> hc.onfail + Count(tr, "onfail", 0)]

\* self.exec(state) of the loop body when a hook raises: the exception leaves
\* exec and __call__, neither of which has a handler around the hooks
ExecHookRaises ==
    /\ pc = "Attempting"
    /\ isCoro = (mode = "async")
    /\ \E o \in Outcomes(calls + 1) :
       \E f \in FailPoints(o, before_hooks, after_hooks, retry_exception_hook) :
        LET r == exec_hook_raises(state, o, before_hooks, after_hooks,
                                  retry_exception_hook, f)
        IN  /\ state' = r.st
            /\ trace' = r.tr
            /\ calls' = calls + Count(r.tr, "call", 0)
            /\ hookCalls' = Counted(hookCalls, r.tr)
            /\ lastOutcome' = IF r.invoked THEN o ELSE lastOutcome
            /\ result' = [type |-> "raise", exc |-> HookError(f).kind,
                          cause |-> None, instance |-> HookError(f)]
    /\ pc' = "Aborted"
    /\ UNCHANGED <<config, strategies, strat, func_state, evals, now, others, tasks>>

\* self.exec(state) of the loop body when the operation raises an exception
\* outside the Exception hierarchy
ExecInterrupted ==
    /\ pc = "Attempting"
    /\ isCoro = (mode = "async")
    /\ \E k \in BaseKinds :
        LET o == BaseExc(k, calls + 1)
            r == exec_raises(state, o, before_hooks, after_hooks,
                             retry_exception_hook, now + 1)
        IN  /\ state' = r.st
            /\ trace' = r.tr
            /\ calls' = calls + Count(r.tr, "call", 0)
            /\ hookCalls' = Counted(hookCalls, r.tr)
            /\ lastOutcome' = o
            /\ pc' = IF r.escaped THEN "Aborted" ELSE "Evaluating"
            /\ result' = IF r.escaped
                         THEN [type |-> "raise", exc |-> o.kind, cause |-> None,
                               instance |-> o]
                         ELSE result
    /\ now' = now + 1
    /\ UNCHANGED <<config, strategies, strat, func_state, evals, others, tasks>>

\* BaseRetry.save_state(state): setattr(state.func, "state", state)
save_state(st) == st

\* random.uniform(0, 1) at the applications of a step: the values it can
\* return, and the strategies with the drawn value in place
Draws(ss) ==
    IF \E i \in DOMAIN ss : "jitter" \in DOMAIN ss[i] THEN 0..MaxJitter ELSE {0}
Seeded(ss, j) ==
    [i \in DOMAIN ss |->
        IF "jitter" \in DOMAIN ss[i] THEN [ss[i] EXCEPT !.jitter = j] ELSE ss[i]]

IsEval(e) == e.ev = "eval"
IsSleep(e) == e.ev = "sleep"

\* self.apply(state) of the loop body and what __call__ does with its result:
\* loop again on True, save_state and return on False, let RetryExaustedError
\* escape otherwise.  When the applied strategy calls time.sleep the step
\* ends inside that call, the thread being blocked there.
Apply ==
    /\ pc = "Evaluating"
    /\ \E j \in Draws(strat) :
       LET r == apply(state, strategies, Seeded(strat, j), on_exceptions)
           asleep == SelectSeq(r.events, IsSleep) # <<>>
       IN  /\ state' = IF asleep THEN r.during ELSE r.st
           /\ strategies' = r.chain
           /\ strat' = r.ss
           /\ trace' = trace \o r.events
           /\ evals' = evals + Len(SelectSeq(r.events, IsEval))
           /\ pc' = CASE asleep -> "Sleeping"
                      [] r.outcome = "True" -> "Attempting"
                      [] r.outcome = "False" -> "Succeeded"
                      [] OTHER -> "Exhausted"
           /\ func_state' = IF r.outcome = "False" THEN save_state(r.st)
                            ELSE func_state
           /\ result' = CASE r.outcome = "True" -> result
                          [] r.outcome = "False" ->
                               [type |-> "return", value |-> r.st.returned_value]
                          [] OTHER ->
                               [type |-> "raise", exc |-> "RetryExaustedError",
                                cause |-> r.cause]
    /\ UNCHANGED <<config, calls, hookCalls, lastOutcome, now, others, tasks>>

\* time.sleep returns: the rest of exec_strategy (the attempt is counted, a
\* stopped strategy leaves the active slot) and of apply (the record is
\* cleared, True is returned), and the loop goes round
Wake ==
    /\ pc = "Sleeping"
    /\ state' = clear(release([state EXCEPT !.current_attempts = @ + 1],
                              strat[state.strategy]))
    /\ pc' = "Attempting"
    /\ UNCHANGED <<config, strategies, strat, func_state, result, calls, evals,
                   hookCalls, trace, lastOutcome, now, others, tasks>>

\* The run gives the thread back to the event loop only where it awaits:
\* AsyncRetry runs as a task that has not started, has ended, or stands at
\* `await state.func(...)` of an attempt.  Between the return of that await
\* and the next one (apply, the strategy, time.sleep) the code has no await.
Suspended == mode = "async" /\ pc \notin {"Evaluating", "Sleeping"}

\* another task of the same event loop takes a step
OtherStep ==
    /\ Suspended
    /\ others < MaxOtherSteps
    /\ others' = others + 1
    /\ UNCHANGED <<config, strategies, strat, state, func_state, pc, result,
                   calls, evals, hookCalls, trace, lastOutcome, now, tasks>>

Next == Call \/ Exec \/ Apply

Spec == Init /\ [][Next]_vars

\* Runs with one hook of each sort, all of which return.
InitHooked ==
    /\ Init
    /\ Len(before_hooks) = 1 /\ Len(after_hooks) = 1 /\ retry_exception_hook

\* The run is one sequential call: once it has started, each next step is
\* taken as soon as the previous one returns.
FairSpec == InitHooked /\ [][Next]_vars /\ WF_vars(Next)

Terminal == pc \in {"Succeeded", "Exhausted"}

\* Orchestrators handed an operation of either kind, matching or not:
\* inspect.iscoroutinefunction(func) is independent of the orchestrator.
InitAnyOperation ==
    /\ mode \in {"sync", "async"}
    /\ isCoro \in BOOLEAN
    /\ \E ss \in Chains, on_exc \in SUBSET ExcKinds, bh \in HookLists,
          ah \in HookLists, onfail \in BOOLEAN :
            BaseRetry_init(ss, on_exc, bh, ah, onfail)
    /\ InitRun

SpecAnyOperation == InitAnyOperation /\ [][Next]_vars

\* Runs over a chain of at most one strategy in which a hook can raise and
\* the operation can raise outside the Exception hierarchy
InitShortChain == Init /\ Len(strat) <= 1

NextFailures == Call \/ Exec \/ Apply \/ ExecHookRaises \/ ExecInterrupted

SpecFailures == InitShortChain /\ [][NextFailures]_vars

\* Delaying strategies a caller can build
Delaying ==
    {SleepStrategy(sec, n) : sec \in 1..MaxSeconds, n \in 0..MaxLimit}
    \cup {ExponentialBackoffStrategy(n, b) : n \in 0..MaxLimit, b \in 1..MaxSeconds}

\* AsyncRetry over a chain of delaying strategies, run as one task of an
\* event loop that has other tasks
InitEventLoop ==
    /\ mode = "async"
    /\ isCoro = TRUE
    /\ \E ss \in UNION {[1..k -> Delaying] : k \in 1..MaxStrategies} :
            BaseRetry_init(ss, {}, <<>>, <<>>, FALSE)
    /\ InitRun

NextEventLoop == Call \/ Exec \/ Apply \/ Wake \/ OtherStep

SpecEventLoop == InitEventLoop /\ [][NextEventLoop]_vars

\* ---- strategies applied directly ----------------------------------------
\* enough applications to go two past the largest limit
MaxApplications == MaxLimit + 2

\* every strategy a caller can build, of both packages
Strategies ==
    {NewStrategy(n) : n \in 0..MaxLimit}
    \cup {StopAfterAttemptStrategy(n) : n \in 0..MaxLimit}
    \cup Delaying
    \cup {StopWhenReturnValueStrategy(e, n) :
              e \in {None} \cup {Val(v) : v \in Values},
              n \in {NoLimit} \cup 0..MaxLimit}
    \cup {ExponentialBackoff(n, b) : n \in 0..MaxLimit, b \in 1..MaxSeconds}

\* what a caller can pass to an application: nothing, a value, a failure
Passed == {None} \cup {Val(v) : v \in Values} \cup {Exc(k, 0) : k \in ExcKinds}

\* One fresh strategy object and no orchestrator: the caller applies the
\* strategy itself, as the tests of the strategies do.
InitDirect ==
    /\ mode = "sync"
    /\ isCoro = FALSE
    /\ on_exceptions = {}
    /\ before_hooks = <<>>
    /\ after_hooks = <<>>
    /\ retry_exception_hook = FALSE
    /\ strategies = <<>>
    /\ \E s \in Strategies : strat = <<s>>
    /\ state = None
    /\ func_state = None
    /\ pc = "Direct"
    /\ result = None
    /\ calls = 0
    /\ evals = 0
    /\ hookCalls = [before |-> <<>>, after |-> <<>>, onfail |-> 0]
    /\ trace = <<>>
    /\ lastOutcome = None
    /\ now = 1
    /\ others = 0
    /\ runs = <<>> /\ orchs = <<>> /\ funcs = <<>> /\ twin = <<>>

\* s.eval(value) / s.maybe_apply(value) called by the caller: `result` is
\* what the call returned or raised, `lastOutcome` the value it was given,
\* `trace` the effects of all the calls
Evaluate ==
    /\ pc = "Direct"
    /\ evals < MaxApplications
    /\ \E value \in Passed, j \in Draws(strat) :
        LET r == Strategy_eval(Seeded(strat, j)[1], value)
        IN  /\ strat' = <<r.s>>
            /\ result' = IF r.raised
                         THEN [type |-> "raise", exc |-> "RetryStrategyExausted",
                               cause |-> r.cause]
                         ELSE [type |-> "return", value |-> r.ret]
            /\ trace' = trace \o [n \in 1..Len(r.effects) |->
                                     Event(r.effects[n].ev, 1, r.effects[n].arg)]
            /\ lastOutcome' = value
    /\ evals' = evals + 1
    /\ UNCHANGED <<config, strategies, state, func_state, pc, calls, hookCalls,
                   now, others, tasks>>

SpecDirect == InitDirect /\ [][Evaluate]_vars

\* ---- orchestrators that name base classes -------------------------------
\* what a caller can put in on_exceptions: the classes the operation raises
\* and a base class of one of them
AllowedKinds == ExcKinds \cup UNION {Bases(k) : k \in ExcKinds}

InitKinds ==
    /\ mode \in {"sync", "async"}
    /\ isCoro = (mode = "async")
    /\ \E ss \in Chains, on_exc \in SUBSET AllowedKinds :
            BaseRetry_init(ss, on_exc, <<>>, <<>>, FALSE)
    /\ InitRun

SpecKinds == InitKinds /\ [][Next]_vars

\* ---- orchestrators over value-matching strategies -----------------------
\* StopWhenReturnValueStrategy objects a caller can build
Matching ==
    {StopWhenReturnValueStrategy(e, n) :
        e \in {None} \cup {Val(v) : v \in Values},
        n \in {NoLimit} \cup 0..MaxLimit}

\* a matching strategy alone, or followed or preceded by a counting one
MatchingChains ==
    {<<m>> : m \in Matching}
    \cup {<<m, NewStrategy(n)>> : m \in Matching, n \in 0..MaxLimit}
    \cup {<<NewStrategy(n), m>> : m \in Matching, n \in 0..MaxLimit}

InitMatching ==
    /\ mode \in {"sync", "async"}
    /\ isCoro = (mode = "async")
    /\ \E ss \in MatchingChains, on_exc \in SUBSET ExcKinds :
            BaseRetry_init(ss, on_exc, <<>>, <<>>, FALSE)
    /\ InitRun

\* a strategy without a limit lets the loop go round for ever: the runs are
\* followed for this many invocations
MaxInvocations == 2 * MaxLimit + 2

ExecBounded == calls < MaxInvocations /\ Exec

NextMatching == Call \/ ExecBounded \/ Apply

SpecMatching == InitMatching /\ [][NextMatching]_vars

\* ---- orchestrators over delaying strategies, with hooks -----------------
\* a delaying strategy alone, or followed by a SleepStrategy
PacedChains ==
    {<<d>> : d \in Delaying}
    \cup {<<d, SleepStrategy(sec, n)>> :
             d \in Delaying, sec \in {MaxSeconds}, n \in 0..MaxLimit}

InitPaced ==
    /\ mode \in {"sync", "async"}
    /\ isCoro = (mode = "async")
    /\ \E ss \in PacedChains, bh \in FewHooks, ah \in FewHooks,
          onfail \in BOOLEAN :
            BaseRetry_init(ss, {}, bh, ah, onfail)
    /\ InitRun

NextPaced == Call \/ Exec \/ Apply \/ Wake

SpecPaced == InitPaced /\ [][NextPaced]_vars

\* ---- several runs side by side ------------------------------------------
\* What one __call__ works on: its own locals (the record `st`, where it
\* stands, what it returned or raised) and the objects it reaches, which other
\* runs may reach too: the chain of its orchestrator, the strategy objects,
\* and the attribute "state" of its operation (0: not set, r: the record of
\* run r).
World(r) ==
    LET u == runs[r]
    IN  [st |-> u.st, pc |-> u.pc, result |-> u.result, calls |-> u.calls,
         evals |-> u.evals, log |-> u.log, last |-> u.last,
         chain |-> orchs[u.orch].strategies, ss |-> strat,
         attached |-> funcs[u.func].attached]

\* the class and fields of the orchestrator of run r, and the kind of its
\* operation
Setup(r) ==
    LET c == orchs[runs[r].orch]
    IN  [mode |-> c.mode, coro |-> funcs[runs[r].func].coro,
         on_exceptions |-> c.on_exceptions, before_hooks |-> c.before_hooks,
         after_hooks |-> c.after_hooks,
         retry_exception_hook |-> c.retry_exception_hook]

\* the locals of a run as the world `w` has them
Held(u, w) ==
    [u EXCEPT !.st = w.st, !.pc = w.pc, !.result = w.result, !.calls = w.calls,
              !.evals = w.evals, !.log = w.log, !.last = w.last]

\* __call__ up to the loop
run_call(w, t) == [w EXCEPT !.st = RetryState(t), !.pc = "Attempting"]

\* the world after self.exec(state) gave `r`
executed(w, r) ==
    IF r.assertion
    THEN [w EXCEPT !.pc = "Aborted",
                   !.result = [type |-> "raise", exc |-> "AssertionError",
                               cause |-> None]]
    ELSE [w EXCEPT !.st = r.st, !.log = @ \o r.tr, !.calls = @ + 1,
                   !.last = r.got, !.pc = "Evaluating"]

\* self.exec(state) of the loop body, by the class of the orchestrator
run_exec(w, c, o, t) ==
    executed(w, IF c.mode = "async"
                THEN AsyncRetry_exec(w.st, o, c.coro, c.before_hooks,
                                     c.after_hooks, c.retry_exception_hook, t)
                ELSE Retry_exec(w.st, o, c.coro, c.before_hooks, c.after_hooks,
                                c.retry_exception_hook, t))

\* faulty variant: the attribute is set only when the operation has none
attach_if_unset(attached, me) == IF attached = 0 THEN me ELSE attached
\* setattr(state.func, "state", state) by run `me`: whatever was there is
\* replaced
attach(attached, me) == me

\* the world after self.apply(state) gave `r`: the loop goes round on True,
\* save_state and return on False, RetryExaustedError escapes otherwise
applied(w, r, me) ==
    [w EXCEPT !.st = r.st, !.chain = r.chain, !.ss = r.ss,
              !.log = @ \o r.events,
              !.evals = @ + Len(SelectSeq(r.events, IsEval)),
              !.pc = CASE r.outcome = "True" -> "Attempting"
                       [] r.outcome = "False" -> "Succeeded"
                       [] OTHER -> "Exhausted",
              !.attached = IF r.outcome = "False" THEN attach(@, me) ELSE @,
              !.result = CASE r.outcome = "True" -> @
                           [] r.outcome = "False" ->
                                [type |-> "return", value |-> r.st.returned_value]
                           [] OTHER ->
                                [type |-> "raise", exc |-> "RetryExaustedError",
                                 cause |-> r.cause]]

\* self.apply(state) of the loop body and what __call__ does with its result
run_apply(w, c, me) ==
    applied(w, apply(w.st, w.chain, w.ss, c.on_exceptions), me)

\* the next step of a run on the world `w`
advance(w, c, o, t, me) ==
    CASE w.pc = "Pending" -> run_call(w, t)
      [] w.pc = "Attempting" -> run_exec(w, c, o, t + 1)
      [] w.pc = "Evaluating" -> run_apply(w, c, me)
      [] OTHER -> w

\* faulty variant: the attribute lands on every operation
set_state_everywhere(fs, f, a) == [i \in DOMAIN fs |-> [fs[i] EXCEPT !.attached = a]]
\* the attribute "state" belongs to the one operation object `f`
set_state(fs, f, a) == [fs EXCEPT ![f].attached = a]

\* the variables of a single run, which these specifications leave alone
single == <<config, strategies, state, func_state, pc, result, calls, evals,
            hookCalls, trace, lastOutcome, others>>

\* Between two suspension points a run is alone: the other runs stand at an
\* await (inside the operation), have not started, or are over.
Free(r) == \A q \in DOMAIN runs : q # r => runs[q].pc # "Evaluating"

\* the twin of run r takes the same step on its own objects
Twinned(r, o) ==
    twin' = [twin EXCEPT ![r].w = advance(@, twin[r].c, o, now, r)]

TaskCall(r) ==
    /\ runs[r].pc = "Pending"
    /\ Free(r)
    /\ runs' = [runs EXCEPT ![r] = Held(@, run_call(World(r), now))]
    /\ Twinned(r, None)
    /\ UNCHANGED <<orchs, funcs, strat, now, single>>

TaskExec(r) ==
    /\ runs[r].pc = "Attempting"
    /\ Free(r)
    /\ \E o \in Outcomes(runs[r].calls + 1) :
        /\ runs' = [runs EXCEPT
                      ![r] = Held(@, run_exec(World(r), Setup(r), o, now + 1))]
        /\ Twinned(r, o)
    /\ now' = now + 1
    /\ UNCHANGED <<orchs, funcs, strat, single>>

\* the objects after a step of run r left its world as `w`
Landed(r, w) ==
    /\ runs' = [runs EXCEPT ![r] = Held(@, w)]
    /\ orchs' = [orchs EXCEPT ![runs[r].orch].strategies = w.chain]
    /\ strat' = w.ss
    /\ funcs' = set_state(funcs, runs[r].func, w.attached)

TaskApply(r) ==
    /\ runs[r].pc = "Evaluating"
    /\ Landed(r, run_apply(World(r), Setup(r), r))
    /\ Twinned(r, None)
    /\ UNCHANGED <<now, single>>

NoSingleRun ==
    /\ mode = "sync"
    /\ isCoro = FALSE
    /\ on_exceptions = {}
    /\ before_hooks = <<>>
    /\ after_hooks = <<>>
    /\ retry_exception_hook = FALSE
    /\ strategies = <<>>
    /\ state = None
    /\ func_state = None
    /\ pc = "Idle"
    /\ result = None
    /\ calls = 0
    /\ evals = 0
    /\ hookCalls = [before |-> <<>>, after |-> <<>>, onfail |-> 0]
    /\ trace = <<>>
    /\ lastOutcome = None
    /\ others = 0

\* a run that has not started, of orchestrator `c` on operation `f`, the
\* strategies of its orchestrator being `ids`
NewRun(c, f, ids) ==
    [orch |-> c, func |-> f, ids |-> ids, st |-> None, pc |-> "Pending",
     result |-> None, calls |-> 0, evals |-> 0, log |-> <<>>, last |-> None]

\* an orchestrator object of class `m` over the strategies `ids`
NewOrchestrator(m, ids, on_exc, bh, ah, onfail) ==
    [mode |-> m, strategies |-> reversed(ids), on_exceptions |-> on_exc,
     before_hooks |-> bh, after_hooks |-> ah, retry_exception_hook |-> onfail]

\* chains of counting strategies, and chains of one strategy that stops
\* after its attempts or sleeps between them
Variants ==
    Chains
    \cup {<<StopAfterAttemptStrategy(n)>> : n \in 0..MaxLimit}
    \cup {<<SleepStrategy(sec, n)>> : sec \in 1..MaxSeconds, n \in 0..MaxLimit}

OtherClass(m) == IF m = "sync" THEN "async" ELSE "sync"

\* One run by an orchestrator of either class on an operation of the
\* matching kind; its twin is the run of an orchestrator of the other class,
\* built with equal arguments over equal strategies, on an operation of that
\* class's kind.
InitBothClasses ==
    /\ NoSingleRun
    /\ now = 1
    /\ \E m \in {"sync", "async"}, ss \in Variants, on_exc \in SUBSET ExcKinds,
          bh \in FewHooks, ah \in FewHooks, onfail \in BOOLEAN :
        LET ids == [i \in 1..Len(ss) |-> i]
            c   == NewOrchestrator(m, ids, on_exc, bh, ah, onfail)
        IN  /\ strat = ss
            /\ orchs = <<c>>
            /\ funcs = <<[coro |-> (m = "async"), attached |-> 0]>>
            /\ runs = <<NewRun(1, 1, 1..Len(ss))>>
            /\ twin = <<[c |-> [Setup(1) EXCEPT !.mode = OtherClass(m),
                                                 !.coro = (m = "sync")],
                         w |-> World(1)]>>

NextOneRun == TaskCall(1) \/ TaskExec(1) \/ TaskApply(1)

SpecBothClasses == InitBothClasses /\ [][NextOneRun]_vars

\* chains of no strategy or one
ShortChains == {ss \in Chains : Len(ss) <= 1}

\* Two tasks of one event loop, each a run of an AsyncRetry of its own over
\* strategies of its own, on two coroutine functions or on the same one.
\* The twin of a run has its own operation too.
InitConcurrent ==
    /\ NoSingleRun
    /\ now = 1
    /\ \E s1 \in ShortChains, s2 \in ShortChains, same \in BOOLEAN :
        LET ids1 == [i \in 1..Len(s1) |-> i]
            ids2 == [i \in 1..Len(s2) |-> Len(s1) + i]
            f    == [coro |-> TRUE, attached |-> 0]
        IN  /\ strat = s1 \o s2
            /\ orchs = <<NewOrchestrator("async", ids1, {}, <<>>, <<>>, FALSE),
                         NewOrchestrator("async", ids2, {}, <<>>, <<>>, FALSE)>>
            /\ funcs = IF same THEN <<f>> ELSE <<f, f>>
            /\ runs = <<NewRun(1, 1, 1..Len(s1)),
                        NewRun(2, IF same THEN 1 ELSE 2,
                               Len(s1) + 1..Len(s1) + Len(s2))>>
            /\ twin = [r \in 1..Len(runs) |-> [c |-> Setup(r), w |-> World(r)]]

NextConcurrent == \E r \in {1, 2} : TaskCall(r) \/ TaskExec(r) \/ TaskApply(r)

SpecConcurrent == InitConcurrent /\ [][NextConcurrent]_vars

\* chains of up to two strategies
PairChains == {ss \in Chains : Len(ss) <= 2}

\* Two tasks of one event loop that call the same AsyncRetry object, each on
\* a coroutine function of its own.
InitSharedOrchestrator ==
    /\ NoSingleRun
    /\ now = 1
    /\ \E ss \in PairChains :
        LET ids == [i \in 1..Len(ss) |-> i]
            f   == [coro |-> TRUE, attached |-> 0]
        IN  /\ strat = ss
            /\ orchs = <<NewOrchestrator("async", ids, {}, <<>>, <<>>, FALSE)>>
            /\ funcs = <<f, f>>
            /\ runs = <<NewRun(1, 1, 1..Len(ss)), NewRun(1, 2, 1..Len(ss))>>
            /\ twin = [r \in 1..Len(runs) |-> [c |-> Setup(r), w |-> World(r)]]

SpecSharedOrchestrator == InitSharedOrchestrator /\ [][NextConcurrent]_vars

\* ---- runs one after the other -------------------------------------------
\* a run is over once __call__ has returned or raised
Ended(u) == u.pc \in {"Succeeded", "Exhausted", "Aborted"}

\* the caller makes its calls in turn: a call starts when the ones before it
\* are over
InTurn(r) == r \in DOMAIN runs /\ \A q \in 1..(r - 1) : Ended(runs[q])

TurnCall(r) == InTurn(r) /\ TaskCall(r)
TurnExec(r) == InTurn(r) /\ TaskExec(r)
TurnApply(r) == InTurn(r) /\ TaskApply(r)

NextInTurn == \E r \in {1, 2} : TurnCall(r) \/ TurnExec(r) \/ TurnApply(r)

\* One orchestrator of either class called twice on the same operation.  The
\* twin of each call is the same call on an orchestrator just built over
\* strategies just built.
InitReuse ==
    /\ NoSingleRun
    /\ now = 1
    /\ \E m \in {"sync", "async"}, ss \in Chains, on_exc \in SUBSET ExcKinds :
        LET ids == [i \in 1..Len(ss) |-> i]
        IN  /\ strat = ss
            /\ orchs = <<NewOrchestrator(m, ids, on_exc, <<>>, <<>>, FALSE)>>
            /\ funcs = <<[coro |-> (m = "async"), attached |-> 0]>>
            /\ runs = <<NewRun(1, 1, 1..Len(ss)), NewRun(1, 1, 1..Len(ss))>>
            /\ twin = [r \in 1..Len(runs) |-> [c |-> Setup(r), w |-> World(r)]]

SpecReuse == InitReuse /\ [][NextInTurn]_vars

\* A function wrapped by retry(strategies=...) and called twice: every call
\* of the wrapper builds an orchestrator, of the class that goes with the
\* function, over the strategy objects given to the decorator.
InitDecorated ==
    /\ NoSingleRun
    /\ now = 1
    /\ \E m \in {"sync", "async"}, ss \in Chains, on_exc \in SUBSET ExcKinds :
        LET ids == [i \in 1..Len(ss) |-> i]
            c   == NewOrchestrator(m, ids, on_exc, <<>>, <<>>, FALSE)
        IN  /\ strat = ss
            /\ orchs = <<c, c>>
            /\ funcs = <<[coro |-> (m = "async"), attached |-> 0]>>
            /\ runs = <<NewRun(1, 1, 1..Len(ss)), NewRun(2, 1, 1..Len(ss))>>
            /\ twin = [r \in 1..Len(runs) |-> [c |-> Setup(r), w |-> World(r)]]

SpecDecorated == InitDecorated /\ [][NextInTurn]_vars

\* ---- counting strategies, however they are used --------------------------
\* the strategies of pyretries that are built with a limit
Counting ==
    {s \in Strategies : s.kind # "ExponentialBackoff" /\ s.attempts # NoLimit}

\* chains of counting strategies for the runs of an orchestrator
CountingChains ==
    Variants
    \cup {<<m>> : m \in {c \in Counting : c.kind = "StopWhenReturnValueStrategy"}}

\* A counting strategy in the hands of a caller who applies it directly, or
\* a list of them given to the decorator of a function that is called twice.
InitCounting ==
    \/ InitDirect /\ strat[1] \in Counting
    \/ /\ NoSingleRun
       /\ now = 1
       /\ \E m \in {"sync", "async"}, ss \in CountingChains :
           LET ids == [i \in 1..Len(ss) |-> i]
               c   == NewOrchestrator(m, ids, {}, <<>>, <<>>, FALSE)
           IN  /\ strat = ss
               /\ orchs = <<c, c>>
               /\ funcs = <<[coro |-> (m = "async"), attached |-> 0]>>
               /\ runs = <<NewRun(1, 1, 1..Len(ss)), NewRun(2, 1, 1..Len(ss))>>
               /\ twin = [r \in 1..Len(runs) |->
                             [c |-> Setup(r), w |-> World(r)]]

NextCounting == Evaluate \/ NextInTurn

SpecCounting == InitCounting /\ [][NextCounting]_vars

\* ---- properties ---------------------------------------------------------
Limits == SumLimits(strat, Len(strat))

RetryExhausted(r) == r.type = "raise" /\ r.exc = "RetryExaustedError"

\* the filter of the orchestrator, read off its configuration
Ineligible(o) == on_exceptions # {} /\ o.kind \notin on_exceptions

\* C1: over a chain of fresh counting strategies with limits >= 1, a run
\* whose every attempt failed with an eligible failure ends with
\* RetryExaustedError after exactly 1 + (sum of the limits) invocations, each
\* strategy standing at its limit.
C1_ChainExhaustion ==
    ( /\ pc = "Exhausted"
      /\ lastOutcome.type = "exc" /\ ~Ineligible(lastOutcome)
      /\ \A i \in DOMAIN strat : strat[i].attempts >= 1 )
    => /\ calls = 1 + Limits
       /\ RetryExhausted(result)
       /\ \A i \in DOMAIN strat : strat[i].current_attempt = strat[i].attempts

C1_Witness ==
    /\ pc = "Exhausted"
    /\ Len(strat) >= 2
    /\ \A i \in DOMAIN strat : strat[i].attempts >= 1
    /\ strat[1].attempts # strat[2].attempts
    /\ ~Ineligible(lastOutcome)
    /\ calls = 1 + Limits

\* C2: strategies are consumed in the caller's order, one after another: a
\* strategy has been applied only if its predecessor stands at its limit.
C2_SequentialConsumption ==
    \A i \in DOMAIN strat :
        (i > 1 /\ strat[i].current_attempt > 0)
        => strat[i - 1].current_attempt = strat[i - 1].attempts

C2_Witness ==
    /\ Len(strat) >= 2
    /\ strat[2].current_attempt > 0
    /\ strat[2].current_attempt < strat[2].attempts
    /\ strat[1].current_attempt = strat[1].attempts
    /\ pc = "Attempting"

EventsOf(tr, e) == {n \in 1..Len(tr) : tr[n].ev = e}

\* C3: when an attempt succeeds, the run returns the value of that attempt
\* at once: the operation is not invoked again, no strategy is applied for
\* the attempt (the applications made so far number one less than the
\* invocations), and the failure hook was not called for it.
C3_SuccessReturnsValue ==
    [][ (pc = "Evaluating" /\ lastOutcome.type = "val")
        => /\ pc' = "Succeeded"
           /\ result' = [type |-> "return", value |-> lastOutcome]
           /\ calls' = calls
           /\ evals' = evals /\ evals = calls - 1
           /\ state'.current_attempts = calls - 1
           /\ strat' = strat /\ strategies' = strategies
           /\ EventsOf(trace', "eval") = {}
           /\ EventsOf(trace', "onfail") = {}
           /\ hookCalls'.onfail = IF retry_exception_hook THEN calls - 1 ELSE 0
      ]_vars

C3_Witness ==
    /\ pc = "Succeeded"
    /\ calls = 3
    /\ result = [type |-> "return", value |-> Val("b")]
    /\ retry_exception_hook

\* C4: a run that ends with RetryExaustedError carries as cause the failure
\* of the latest invocation of the operation, never an absent cause.
C4_CauseIsLastFailure ==
    /\ pc = "Exhausted"
       => /\ RetryExhausted(result)
          /\ result.cause = lastOutcome
          /\ result.cause = Exc(lastOutcome.kind, calls)
    /\ (result.type = "raise" /\ result.exc = "RetryExaustedError")
       => result.cause.type = "exc"

C4_Witness ==
    /\ pc = "Exhausted"
    /\ calls = 3
    /\ Len(strategies) = 0
    /\ result.cause = Exc("KeyError", 3)

\* C5: a failure of a kind outside a configured on_exceptions ends the run
\* right after that attempt with RetryExaustedError caused by that failure;
\* no strategy is pulled or applied, the counters keep their values (0 on the
\* first attempt), and the operation is never invoked afterwards.
C5_IneligibleFailure ==
    /\ [][ (pc = "Evaluating" /\ lastOutcome.type = "exc" /\ Ineligible(lastOutcome))
           => /\ pc' = "Exhausted"
              /\ RetryExhausted(result') /\ result'.cause = lastOutcome
              /\ strategies' = strategies /\ strat' = strat
              /\ state'.strategy = state.strategy
              /\ state'.current_attempts = state.current_attempts
              /\ evals' = evals /\ calls' = calls
              /\ (calls = 1 => /\ state'.current_attempts = 0
                               /\ \A i \in DOMAIN strat : strat'[i].current_attempt = 0)
         ]_vars
    /\ [][pc = "Exhausted" => calls' = calls]_vars

C5_Witness ==
    /\ pc = "Exhausted"
    /\ Ineligible(lastOutcome)
    /\ calls = 2
    /\ Len(strategies) = 1
    /\ state.strategy # NoStrategy

\* C6: every run ends, succeeded or exhausted, and never invokes the
\* operation more than 1 + (sum of the limits of its chain) times, whatever
\* the attempts produce.
C6_Termination ==
    /\ [](calls <= 1 + Limits)
    /\ <>(pc \in {"Succeeded", "Exhausted"})

C6_Witness ==
    /\ pc = "Succeeded"
    /\ Len(strat) >= 2
    /\ Limits >= 3
    /\ calls = 1 + Limits

\* the hook and operation calls of a trace, as <<event, hook id>>
IsHookOrCall(e) == e.ev \in {"before", "call", "after"}
HookOrder(tr) ==
    LET sel == SelectSeq(tr, IsHookOrCall)
    IN  [n \in 1..Len(sel) |-> <<sel[n].ev, sel[n].i>>]

\* C7: in every attempt the before-hooks are called in list order, then the
\* operation, then the after-hooks in list order, whatever the attempt
\* produces; so every before-hook and every after-hook has been called as
\* often as the operation was invoked, at the end of the run as after every
\* attempt.
C7_HooksEveryAttempt ==
    /\ calls > 0
       => HookOrder(trace) =
             [i \in 1..Len(before_hooks) |-> <<"before", before_hooks[i]>>]
             \o << <<"call", 0>> >>
             \o [i \in 1..Len(after_hooks) |-> <<"after", after_hooks[i]>>]
    /\ \A i \in DOMAIN hookCalls.before : hookCalls.before[i] = calls
    /\ \A i \in DOMAIN hookCalls.after : hookCalls.after[i] = calls

C7_Witness ==
    /\ pc = "Exhausted"
    /\ calls = 3
    /\ Len(before_hooks) = 2 /\ Len(after_hooks) = 2
    /\ hookCalls.before = <<3, 3>> /\ hookCalls.after = <<3, 3>>

\* C8: after a failed attempt the failure hook, if configured, has been
\* called exactly once, with the failure of that attempt and before every
\* after-hook, and every after-hook received that failure; after a successful
\* attempt the failure hook was not called and every after-hook received the
\* returned value.
C8_HookArguments ==
    pc = "Evaluating"
    => /\ \A n \in EventsOf(trace, "after") : trace[n].arg = lastOutcome
       /\ \A n \in EventsOf(trace, "onfail") :
             /\ trace[n].arg = lastOutcome
             /\ \A m \in EventsOf(trace, "after") : n < m
             /\ \A m \in EventsOf(trace, "call") : m < n
       /\ Cardinality(EventsOf(trace, "onfail")) =
             IF lastOutcome.type = "exc" /\ retry_exception_hook THEN 1 ELSE 0

C8_Witness ==
    /\ pc = "Evaluating"
    /\ calls = 2
    /\ lastOutcome.type = "exc"
    /\ retry_exception_hook
    /\ Len(after_hooks) = 2
    /\ trace[Len(trace)] = Event("after", 2, lastOutcome)

C8_WitnessSuccess ==
    /\ pc = "Evaluating"
    /\ calls = 2
    /\ lastOutcome = Val("a")
    /\ retry_exception_hook
    /\ trace[Len(trace)] = Event("after", 2, Val("a"))

\* the strategy exec_strategy is about to evaluate: the active one, else the
\* one it pulls; NoStrategy when there is none to pull
EvaluatedStrategy ==
    IF state.strategy # NoStrategy THEN state.strategy
    ELSE IF Len(strategies) > 0 THEN strategies[Len(strategies)]
    ELSE NoStrategy

\* an eligible failure is about to be evaluated against a strategy whose
\* counter already stands at its limit
StoppedAtEvaluation ==
    /\ pc = "Evaluating"
    /\ lastOutcome.type = "exc" /\ ~Ineligible(lastOutcome)
    /\ EvaluatedStrategy # NoStrategy
    /\ strat[EvaluatedStrategy].current_attempt >= strat[EvaluatedStrategy].attempts

\* strategies that remain in the chain once the evaluated one is pulled
RemainingAfterPull ==
    IF state.strategy # NoStrategy THEN Len(strategies) ELSE Len(strategies) - 1

C10_RecordAttachedAtEnd ==
    pc \in {"Succeeded", "Exhausted"} => func_state = state

\* C11 (as claimed): end_time is written once, when the run reaches its
\* terminal outcome: while a further attempt is still to be made, after a
\* non-final attempt, the record's end_time is still unwritten.
C11_EndTimeWrittenAtEndOnly ==
    (pc = "Attempting" /\ calls > 0) => state.end_time = 0

\* C12 (as claimed): a coroutine operation handed to the blocking
\* orchestrator makes the run fail fast with a usage error: once the first
\* attempt was made the run has ended with an error that is not
\* RetryExaustedError, and it never ends as a success returning a value.
C12_BlockingRejectsCoroutine ==
    (mode = "sync" /\ isCoro)
    => /\ pc # "Succeeded"
       /\ pc \notin {"Pending", "Attempting"}
          => /\ pc = "Aborted"
             /\ result.type = "raise" /\ result.exc # "RetryExaustedError"

\* C13 (as claimed): in the suspend-capable orchestrator a pacing delay is a
\* suspension point: while the run is in the delay of a strategy, another
\* task of the event loop that has a step to take can take it.
C13_DelayIsSuspensionPoint ==
    (mode = "async" /\ pc = "Sleeping" /\ others < MaxOtherSteps)
    => ENABLED OtherStep

\* ---- properties of the strategies applied directly ------------------------
StrategyExhausted(r) == r.type = "raise" /\ r.exc = "RetryStrategyExausted"

CountingKinds ==
    {"NoopStrategy", "StopAfterAttemptStrategy", "SleepStrategy",
     "ExponentialBackoffStrategy"}

\* the calls of time.sleep made so far
Sleeps == SelectSeq(trace, IsSleep)

\* C14: a counting strategy of the canonical package with limit N, applied
\* directly: each of the first N applications returns True and raises the
\* counter by one, the strategy is exhausted exactly from the N-th
\* application on, and the (N+1)-th and every later application raises
\* RetryStrategyExausted and leaves the counter at N.
C14_CountingStrategies ==
    (pc = "Direct" /\ strat[1].kind \in CountingKinds)
    => LET s == strat[1]
           N == s.attempts
       IN  /\ s.current_attempt = IF evals <= N THEN evals ELSE N
           /\ Strategy_should_stop(s) <=> evals >= N
           /\ (0 < evals /\ evals <= N) => result = [type |-> "return", value |-> TRUE]
           /\ evals > N => StrategyExhausted(result)

C14_Witness ==
    /\ pc = "Direct"
    /\ strat[1].kind = "ExponentialBackoffStrategy"
    /\ strat[1].attempts = 2
    /\ evals = 4
    /\ strat[1].current_attempt = 2
    /\ StrategyExhausted(result)

\* C15 (as claimed): ExponentialBackoff of the package `retries` with
\* max_attempts = N, applied N+1 times in a row: the (N+1)-th application
\* raises RetryStrategyExausted, exactly N delays have been performed and
\* current_attempt is N.
C15_BackoffStopsAtLimit ==
    (pc = "Direct" /\ strat[1].kind = "ExponentialBackoff"
       /\ evals = strat[1].attempts + 1)
    => /\ StrategyExhausted(result)
       /\ Len(Sleeps) = strat[1].attempts
       /\ strat[1].current_attempt = strat[1].attempts

\* C16: a strategy applied when its stop predicate is already true raises
\* RetryStrategyExausted; the cause of that error is the value passed to the
\* application when the value is a failure, and is absent when the value is a
\* plain value or nothing.
C16_ExhaustedCause ==
    /\ [][ (pc = "Direct" /\ Strategy_should_stop(strat[1]))
           => /\ StrategyExhausted(result')
              /\ result'.cause = IF lastOutcome'.type = "exc" THEN lastOutcome'
                                 ELSE None ]_vars
    /\ [](StrategyExhausted(result)
          => /\ lastOutcome.type = "exc" => result.cause = lastOutcome
             /\ lastOutcome.type # "exc" => result.cause = None)

C16_Witness ==
    /\ pc = "Direct"
    /\ strat[1] = SleepStrategy(1, 0)
    /\ evals = 1
    /\ result = [type |-> "raise", exc |-> "RetryStrategyExausted",
                 cause |-> Exc("ValueError", 0)]

C16_WitnessNoCause ==
    /\ pc = "Direct"
    /\ strat[1].kind = "StopAfterAttemptStrategy"
    /\ lastOutcome = Val("a")
    /\ result = [type |-> "raise", exc |-> "RetryStrategyExausted", cause |-> None]

\* C17: SleepStrategy(seconds, N) applied directly: by the time it raises
\* exactly N delays were performed, one per successful application, each of
\* `seconds`; the k-th delay starts with the counter already at k; an
\* application that raises performs no delay, so with N = 0 there is none.
C17_FixedDelay ==
    (pc = "Direct" /\ strat[1].kind = "SleepStrategy")
    => LET s == strat[1]
       IN  /\ Len(Sleeps) = IF evals <= s.attempts THEN evals ELSE s.attempts
           /\ Len(trace) = Len(Sleeps)
           /\ \A k \in 1..Len(Sleeps) :
                 Sleeps[k].arg = [seconds |-> s.seconds, attempt |-> k]
           /\ StrategyExhausted(result)
              => /\ Len(Sleeps) = s.attempts
                 /\ s.attempts = 0 => trace = <<>>

C17_Witness ==
    /\ pc = "Direct"
    /\ strat[1].kind = "SleepStrategy"
    /\ strat[1].seconds = 2 /\ strat[1].attempts = 2
    /\ evals = 3
    /\ StrategyExhausted(result)
    /\ Len(Sleeps) = 2
    /\ Sleeps[2].arg = [seconds |-> 2, attempt |-> 2]

C17_WitnessLimitZero ==
    /\ pc = "Direct"
    /\ strat[1].kind = "SleepStrategy"
    /\ strat[1].attempts = 0
    /\ evals = 1
    /\ StrategyExhausted(result)
    /\ trace = <<>>

\* C18: the delay of the k-th successful application of
\* ExponentialBackoffStrategy with base delay b is b * 2^k + j, j being the
\* value random.uniform returned in that application: it depends on k, b and
\* j only, not on the delays performed before.  (An application makes two
\* events: the draw, then the delay.)
C18_ExponentialDelay ==
    (pc = "Direct" /\ strat[1].kind = "ExponentialBackoffStrategy")
    => /\ Len(trace) = 2 * strat[1].current_attempt
       /\ \A k \in 1..strat[1].current_attempt :
             /\ trace[2 * k - 1].ev = "uniform"
             /\ trace[2 * k].ev = "sleep"
             /\ trace[2 * k].arg.attempt = k
             /\ trace[2 * k].arg.seconds =
                   strat[1].base_delay * 2 ^ k + trace[2 * k - 1].arg
       /\ strat[1].current_attempt > 0
          => strat[1].delay = trace[Len(trace)].arg.seconds

C18_Witness ==
    /\ pc = "Direct"
    /\ strat[1].kind = "ExponentialBackoffStrategy"
    /\ strat[1].base_delay = 2
    /\ strat[1].current_attempt = 2
    /\ trace[1].arg = 1 /\ trace[2].arg.seconds = 5
    /\ trace[3].arg = 0 /\ trace[4].arg.seconds = 8

\* C19: StopWhenReturnValueStrategy(expected, max_attempts) applied directly.
\* While it is not exhausted an application returns False exactly when the
\* passed value equals `expected` and True otherwise, and raises the counter
\* by one when max_attempts is set (leaves it alone when it is not); once the
\* counter has reached max_attempts the application raises
\* RetryStrategyExausted.
C19_StopWhenReturnValue ==
    [][ (pc = "Direct" /\ strat[1].kind = "StopWhenReturnValueStrategy")
        => LET s == strat[1]
               limited == s.attempts # NoLimit
           IN  IF limited /\ s.current_attempt >= s.attempts
               THEN /\ StrategyExhausted(result')
                    /\ strat'[1].current_attempt = s.current_attempt
               ELSE /\ result'.type = "return"
                    /\ result'.value = FALSE <=> lastOutcome' = s.expected
                    /\ result'.value = TRUE <=> lastOutcome' # s.expected
                    /\ strat'[1].current_attempt =
                          IF limited THEN s.current_attempt + 1
                          ELSE s.current_attempt
      ]_vars

C19_Witness ==
    /\ pc = "Direct"
    /\ strat[1].kind = "StopWhenReturnValueStrategy"
    /\ strat[1].expected = Val("a") /\ strat[1].attempts = 2
    /\ evals = 1
    /\ lastOutcome = Val("a")
    /\ result = [type |-> "return", value |-> FALSE]
    /\ strat[1].current_attempt = 1

C19_WitnessExhausted ==
    /\ pc = "Direct"
    /\ strat[1].kind = "StopWhenReturnValueStrategy"
    /\ strat[1].expected = None /\ strat[1].attempts = 2
    /\ evals = 3
    /\ lastOutcome = Val("a")
    /\ StrategyExhausted(result) /\ result.cause = None

\* C20: the outcome fields of the record, returned_value and exception, are
\* both empty right before every invocation of the operation, the first one
\* and every retried one, whatever the previous attempt produced.
C20_OutcomeClearedBeforeAttempt ==
    pc = "Attempting"
    => /\ state.returned_value = None
       /\ state.exception = None
       /\ ~raised(state)

C20_Witness ==
    /\ pc = "Attempting"
    /\ calls = 2
    /\ lastOutcome.type = "exc"
    /\ state.current_attempts = 2
    /\ state.exception = None

\* C21: RetryStrategyExausted never escapes a run: whatever the chain and
\* the operation do, an error raised by the orchestrator itself is
\* RetryExaustedError or the usage error (AssertionError); and a strategy is
\* applied only while its stop predicate is false, the application then
\* counting one attempt.
C21_StrategyErrorNeverEscapes ==
    /\ [](result.type = "raise"
          => result.exc \in {"RetryExaustedError", "AssertionError"})
    /\ [][ evals' # evals
           => /\ evals' = evals + 1
              /\ EvaluatedStrategy # NoStrategy
              /\ strat[EvaluatedStrategy].current_attempt
                    < strat[EvaluatedStrategy].attempts
              /\ strat'[EvaluatedStrategy].current_attempt
                    = strat[EvaluatedStrategy].current_attempt + 1
              /\ trace'[Len(trace')].ev = "eval"
              /\ trace'[Len(trace')].i = EvaluatedStrategy ]_vars

C21_Witness ==
    /\ pc = "Exhausted"
    /\ RetryExhausted(result)
    /\ evals = 2
    /\ state.strategy # NoStrategy
    /\ strat[state.strategy].attempts = 0
    /\ Len(strat) = 2 /\ strat[1].attempts = 2

\* the attempt of this step is cut short by a hook
HookAborts == pc = "Attempting" /\ pc' = "Aborted" /\ result'.exc = "HookError"

\* the hook that raised, as an event of the trace (without its argument)
RaisingHook(r) ==
    LET f == r.instance.id
    IN  <<f.at, CASE f.at = "before" -> before_hooks[f.k]
                  [] f.at = "after" -> after_hooks[f.k]
                  [] OTHER -> 0>>

\* C22: an exception raised by a before-hook, an after-hook or the failure
\* hook leaves the run at once and as it is: the run ends with that very
\* exception, not with RetryExaustedError, the raising hook is the last thing
\* called in the run, and nothing is done afterwards.  The attempt is not
\* counted: no strategy is pulled or applied and the counters of the
\* strategies and of the record keep their values.  When it is a before-hook
\* that raises, the operation is not invoked in that attempt.
C22_HookFailurePropagates ==
    /\ [][ HookAborts
           => LET last == trace'[Len(trace')]
              IN  /\ result'.type = "raise" /\ result'.cause = None
                  /\ result'.instance.kind = "HookError"
                  /\ trace' # <<>>
                  /\ <<last.ev, last.i>> = RaisingHook(result')
                  /\ Cardinality(EventsOf(trace', last.ev))
                        = IF last.ev = "onfail" THEN 1 ELSE result'.instance.id.k
                  /\ strat' = strat /\ strategies' = strategies
                  /\ evals' = evals
                  /\ state'.strategy = state.strategy
                  /\ state'.current_attempts = state.current_attempts
                  /\ state'.end_time = state.end_time
                  /\ func_state' = func_state
                  /\ last.ev = "before"
                     => /\ calls' = calls
                        /\ EventsOf(trace', "call") = {}
                        /\ state' = state
                  /\ last.ev # "before"
                     => /\ calls' = calls + 1
                        /\ Cardinality(EventsOf(trace', "call")) = 1
         ]_vars
    /\ [][pc # "Aborted"]_vars

C22_Witness ==
    /\ pc = "Aborted"
    /\ result.exc = "HookError"
    /\ calls = 1
    /\ Len(before_hooks) = 2
    /\ trace = <<Event("before", 1, None)>>
    /\ state.current_attempts = 1
    /\ hookCalls.before = <<2, 1>>

C22_WitnessAfterHook ==
    /\ pc = "Aborted"
    /\ result.exc = "HookError"
    /\ calls = 2
    /\ lastOutcome.type = "exc"
    /\ retry_exception_hook
    /\ Len(after_hooks) = 2
    /\ trace[Len(trace)] = Event("after", 1, lastOutcome)
    /\ state.exception = lastOutcome

\* C23: an exception outside the Exception hierarchy (the cancellation of
\* the task, an interrupt, the RetryExaustedError of a nested run) that
\* surfaces in the invocation of the operation is not captured as a failure
\* of the attempt: the run ends with that very exception, the record holds no
\* failure, neither the failure hook nor an after-hook is called for it, no
\* strategy is pulled or applied, and the operation is not invoked again.
C23_BaseExceptionPropagates ==
    /\ [][ (pc = "Attempting" /\ lastOutcome'.type = "base")
           => /\ pc' = "Aborted"
              /\ result' = [type |-> "raise", exc |-> lastOutcome'.kind,
                            cause |-> None, instance |-> lastOutcome']
              /\ lastOutcome'.id = calls' /\ calls' = calls + 1
              /\ trace'[Len(trace')].ev = "call"
              /\ EventsOf(trace', "onfail") = {} /\ EventsOf(trace', "after") = {}
              /\ hookCalls'.onfail = hookCalls.onfail
              /\ hookCalls'.after = hookCalls.after
              /\ state' = state /\ ~raised(state')
              /\ strat' = strat /\ strategies' = strategies /\ evals' = evals
         ]_vars
    /\ [][pc = "Aborted" => (calls' = calls /\ evals' = evals)]_vars

C23_Witness ==
    /\ pc = "Aborted"
    /\ mode = "async"
    /\ result.exc = "CancelledError"
    /\ lastOutcome = BaseExc("CancelledError", 2)
    /\ calls = 2
    /\ retry_exception_hook /\ Len(after_hooks) = 1
    /\ hookCalls.onfail = 1 /\ hookCalls.after = <<1>>

C23_WitnessNested ==
    /\ pc = "Aborted"
    /\ result.exc = "RetryExaustedError" /\ result.cause = None
    /\ lastOutcome = BaseExc("RetryExaustedError", 1)
    /\ Len(strategies) = 1

\* C27: a run moves only along Pending -> Attempting; from an attempt to
\* Succeeded when it produced a value, to Exhausted without any strategy
\* being consulted when it produced an ineligible failure, and through the
\* evaluation of a strategy to Attempting or Exhausted when it produced an
\* eligible failure.  Succeeded and Exhausted are terminal: no invocation,
\* hook call or strategy application follows.  Invocations are made one at a
\* time, each after the attempt before it is over.  (pc = "Evaluating" is
\* the position between exec and apply of one attempt.)
C27_StateMachine ==
    [][ CASE pc = "Pending" ->
               pc' = "Attempting" /\ calls = 0 /\ calls' = 0 /\ evals' = 0
          [] pc = "Attempting" ->
               /\ pc' = "Evaluating"
               /\ calls' = calls + 1 /\ evals' = evals
               /\ Cardinality(EventsOf(trace', "call")) = 1
          [] pc = "Evaluating" ->
               /\ calls' = calls /\ hookCalls' = hookCalls
               /\ IF lastOutcome.type = "val"
                  THEN /\ pc' = "Succeeded"
                       /\ evals' = evals /\ strategies' = strategies
                       /\ state'.strategy = state.strategy
                  ELSE IF Ineligible(lastOutcome)
                  THEN /\ pc' = "Exhausted"
                       /\ evals' = evals /\ strategies' = strategies
                       /\ state'.strategy = state.strategy
                  ELSE /\ pc' \in {"Attempting", "Exhausted"}
                       /\ pc' = "Attempting" <=> evals' = evals + 1
                       /\ pc' = "Exhausted" <=> evals' = evals
          [] OTHER -> FALSE
      ]_vars

C27_Witness ==
    /\ pc = "Succeeded"
    /\ calls = 3 /\ evals = 2
    /\ Len(strat) = 2 /\ strat[1].attempts = 1
    /\ on_exceptions = {"KeyError"}

C27_WitnessIneligible ==
    /\ pc = "Exhausted"
    /\ on_exceptions = {"KeyError"}
    /\ lastOutcome = Exc("ValueError", 2)
    /\ evals = 1
    /\ Len(strategies) = 1

\* C28: current_attempts of the record never decreases, grows by one with
\* every strategy application and with nothing else (not with an invocation
\* of the operation), and at the end of the run, by success, by exhaustion
\* of the chain or by an ineligible failure, equals the number of
\* invocations minus one.
C28_AttemptCount ==
    /\ [](pc # "Pending" => state.current_attempts = evals)
    /\ [](Terminal => state.current_attempts = calls - 1)
    /\ [][ pc # "Pending"
           => /\ state'.current_attempts >= state.current_attempts
              /\ state'.current_attempts - state.current_attempts = evals' - evals
              /\ evals' - evals \in {0, 1}
              /\ calls' # calls => state'.current_attempts = state.current_attempts
         ]_vars

C28_Witness ==
    /\ pc = "Exhausted"
    /\ ~Ineligible(lastOutcome)
    /\ state.current_attempts = 3
    /\ calls = 4 /\ evals = 3
    /\ Len(strat) = 2

C28_WitnessSuccess ==
    /\ pc = "Succeeded"
    /\ state.current_attempts = 2
    /\ calls = 3
    /\ Len(strat) = 1

\* C29 (as claimed): every successful application of a strategy, of
\* whatever class and configuration, StopWhenReturnValueStrategy without
\* max_attempts included, raises the counter of the strategy by one.
C29_EveryApplicationCounts ==
    [][ (pc = "Direct" /\ result'.type = "return")
        => strat'[1].current_attempt = strat[1].current_attempt + 1 ]_vars

\* C30 (as claimed): the value handed to the strategy applied after a
\* failed attempt is the latest outcome of the run, the failure captured
\* from that attempt.
C30_StrategyGivenLatestFailure ==
    \A n \in EventsOf(trace, "eval") :
        lastOutcome.type = "exc" /\ trace[n].arg = lastOutcome

\* ---- runs side by side ---------------------------------------------------
\* C24: a run by the blocking orchestrator and a run by the suspend-capable
\* one, built with equal strategies, on_exceptions and hooks and given the
\* same outcome at each attempt, make the same hook calls, invocations and
\* strategy applications in the same order, leave the same strategy counters
\* and chain, and end alike: the same returned value, or RetryExaustedError
\* with the same cause.
C24_ClassesEquivalent ==
    \A r \in DOMAIN runs :
        LET a == World(r)
            b == twin[r].w
        IN  /\ twin[r].c.mode # orchs[runs[r].orch].mode
            /\ a.log = b.log
            /\ a.calls = b.calls /\ a.evals = b.evals
            /\ a.ss = b.ss /\ a.chain = b.chain
            /\ a.pc = b.pc /\ a.result = b.result

\* both runs exhausted their chain after two applications, hooks called
C24_Witness ==
    /\ Len(runs) = 1
    /\ orchs[1].mode = "sync" /\ twin[1].c.mode = "async"
    /\ runs[1].pc = "Exhausted" /\ twin[1].w.pc = "Exhausted"
    /\ runs[1].evals >= 2
    /\ runs[1].result.cause.type = "exc"
    /\ Len(orchs[1].before_hooks) >= 1 /\ orchs[1].retry_exception_hook

\* both runs returned a value after a failed attempt
C24_WitnessReturn ==
    /\ Len(runs) = 1
    /\ orchs[1].mode = "async" /\ twin[1].c.mode = "sync"
    /\ runs[1].pc = "Succeeded" /\ twin[1].w.pc = "Succeeded"
    /\ runs[1].calls >= 2
    /\ runs[1].result.value.type = "val"

\* the strategy objects of run r as the world `w` has them
Own(r, w) == [i \in runs[r].ids |-> w.ss[i]]

Apart == \A r, q \in DOMAIN runs :
            r # q => /\ runs[r].orch # runs[q].orch
                     /\ runs[r].func # runs[q].func
                     /\ runs[r].ids \cap runs[q].ids = {}

\* C25: two runs interleaving at their suspension points, with distinct
\* orchestrators, strategy objects and operations, each go as they go alone:
\* at every point a run has invoked its operation as often, its strategies
\* stand at the same counters, it has ended or not with the same value or
\* error, and its operation carries the same record, as the same run made on
\* objects nobody else touches.
C25_RunsIsolated ==
    Apart =>
        \A r \in DOMAIN runs :
            LET a == World(r)
                b == twin[r].w
            IN  /\ a.calls = b.calls
                /\ Own(r, a) = Own(r, b)
                /\ a.pc = b.pc /\ a.result = b.result
                /\ (a.attached = r) = (b.attached = r)
                /\ a.attached \in {0, r}
                /\ a.st = b.st

\* one run has returned and the other exhausted its strategy, the steps of
\* the two having alternated
C25_Witness ==
    /\ Len(runs) = 2 /\ Apart
    /\ runs[1].pc = "Succeeded" /\ runs[2].pc = "Exhausted"
    /\ runs[1].calls >= 2 /\ runs[2].calls >= 2
    /\ funcs[1].attached = 1 /\ funcs[2].attached = 0
    /\ runs[1].st.start_time < runs[2].st.end_time
    /\ runs[2].st.start_time < runs[1].st.end_time

\* C26: when two concurrent runs on the same operation object have both
\* returned, the attribute "state" of the operation is the record of the run
\* that finished last, and no longer that of the other.  (A run's last
\* attempt and its return are not interleaved with the other run, so the run
\* whose last attempt ended later is the one that finished last.)
C26_LastFinisherAttached ==
    \A r, q \in DOMAIN runs :
        ( /\ r # q /\ runs[r].func = runs[q].func
          /\ runs[r].pc = "Succeeded" /\ runs[q].pc = "Succeeded"
          /\ runs[r].st.end_time > runs[q].st.end_time )
        => /\ funcs[runs[r].func].attached = r
           /\ funcs[runs[r].func].attached # q
           /\ twin[q].w.attached = q

\* both have returned on the shared operation, the run started first
\* finishing last
C26_Witness ==
    /\ Len(runs) = 2 /\ runs[1].func = runs[2].func
    /\ runs[1].pc = "Succeeded" /\ runs[2].pc = "Succeeded"
    /\ runs[1].st.start_time < runs[2].st.start_time
    /\ runs[1].st.end_time > runs[2].st.end_time
    /\ funcs[1].attached = 1

\* the same with the run started last finishing last
C26_WitnessOther ==
    /\ Len(runs) = 2 /\ runs[1].func = runs[2].func
    /\ runs[1].pc = "Succeeded" /\ runs[2].pc = "Succeeded"
    /\ runs[1].st.end_time < runs[2].st.end_time
    /\ funcs[1].attached = 2

\* ---- what the orchestrator makes of an application ----------------------
\* the application made by a step of apply, and the boolean it returned
Applied == trace'[Len(trace) + 1]
Answer == Strategy_eval(strat[Applied.i], Applied.arg).ret

\* C31: a step that applies a strategy goes back to a new attempt exactly
\* when the application returned True; on False the operation is not
\* invoked again.
C31_BooleanHonoured ==
    [][ (pc = "Evaluating" /\ evals' = evals + 1)
        => (pc' = "Attempting" <=> Answer) ]_vars

\* the strategies still in the chain of the orchestrator
InChain == {strategies[i] : i \in DOMAIN strategies}
Dead(id) == Strategy_should_stop(strat[id])

\* C32: when an attempt starts the active slot is empty or holds a strategy
\* whose stop predicate is false and which has left the chain; the step that
\* applies a strategy and leaves it stopped empties the slot; a stopped
\* strategy is not applied, and a strategy that left the chain never comes
\* back to it.
C32_NoDeadStrategy ==
    /\ [](pc = "Attempting" /\ state.strategy # NoStrategy
            => ~Dead(state.strategy) /\ state.strategy \notin InChain)
    /\ [][ evals' = evals + 1
           => /\ ~Dead(Applied.i)
              /\ Applied.i \notin InChain'
              /\ (Strategy_should_stop(strat'[Applied.i])
                    => state'.strategy = NoStrategy) ]_vars
    /\ [][ InChain' \subseteq InChain ]_vars

\* an attempt starts after the first strategy stopped: the slot is empty,
\* the stopped strategy is out of the chain and the next one still in it
C32_Witness ==
    /\ pc = "Attempting"
    /\ calls >= 2
    /\ state.strategy = NoStrategy
    /\ Len(strat) = 2
    /\ strat[1].attempts >= 1 /\ Dead(1)
    /\ InChain = {2}

\* an attempt starts with a live strategy in the slot
C32_WitnessLive ==
    /\ pc = "Attempting"
    /\ state.strategy # NoStrategy
    /\ strat[state.strategy].current_attempt = 1
    /\ strat[state.strategy].attempts = 2

\* ---- delays and hooks ---------------------------------------------------
\* the place of an event in an attempt
Rank(e) ==
    CASE e.ev = "before" -> 1
      [] e.ev = "call" -> 2
      [] e.ev = "onfail" -> 3
      [] e.ev = "after" -> 4
      [] e.ev = "eval" -> 5
      [] e.ev = "uniform" -> 6
      [] e.ev = "sleep" -> 7

Delays(tr) == Len(SelectSeq(tr, IsSleep))
IsDelaying(s) == s.kind \in {"SleepStrategy", "ExponentialBackoffStrategy"}

\* C33: the events of an attempt come in the order before-hooks, operation,
\* failure hook, after-hooks, strategy application, delay.  A delay is the
\* last event of a failed attempt whose hooks have all been called, and the
\* next thing after it is a new attempt; nothing is delayed before the first
\* invocation nor after the attempt that exhausts the run; and every
\* application of a delaying strategy makes exactly one delay, delays being
\* made by applications only.
C33_DelayBetweenAttempts ==
    /\ [](\A i, j \in DOMAIN trace : i < j => Rank(trace[i]) <= Rank(trace[j]))
    /\ [](Delays(trace) > 0
            => /\ Delays(trace) = 1 /\ trace[Len(trace)].ev = "sleep"
               /\ lastOutcome.type = "exc"
               /\ Count(trace, "call", 0) = 1
               /\ \A h \in DOMAIN after_hooks : Count(trace, "after", h) = 1
               /\ \A h \in DOMAIN before_hooks : Count(trace, "before", h) = 1
               /\ retry_exception_hook => Count(trace, "onfail", 0) = 1)
    /\ [](calls = 0 => Delays(trace) = 0)
    /\ [](pc \in {"Exhausted", "Succeeded"} => Delays(trace) = 0)
    /\ [][ pc = "Sleeping"
           => pc' = "Attempting" /\ calls' = calls /\ trace' = trace ]_vars
    /\ [][ (pc = "Attempting" /\ Delays(trace) > 0)
           => Delays(trace') = 0 /\ calls' = calls + 1
              /\ Rank(trace'[1]) <= 2 ]_vars
    /\ [][ evals' = evals + 1 /\ IsDelaying(strat[Applied.i])
           => Delays(trace') = Delays(trace) + 1 /\ pc' = "Sleeping" ]_vars
    /\ [][ Delays(trace') > Delays(trace) => evals' = evals + 1 ]_vars

\* the delay of a failed attempt, all three sorts of hooks called before it
C33_Witness ==
    /\ pc = "Sleeping"
    /\ calls >= 2
    /\ Len(before_hooks) = 1 /\ Len(after_hooks) = 1 /\ retry_exception_hook
    /\ Len(trace) >= 6
    /\ trace[1].ev = "before" /\ trace[2].ev = "call" /\ trace[3].ev = "onfail"
    /\ trace[4].ev = "after" /\ trace[5].ev = "eval"
    /\ trace[Len(trace)].ev = "sleep"

\* an exhausted run: as many delays as applications, none after the last
\* attempt
C33_WitnessExhausted ==
    /\ pc = "Exhausted"
    /\ evals = 2 /\ calls = 3
    /\ Len(after_hooks) = 1
    /\ trace[Len(trace)].ev = "after"

\* ---- one orchestrator, several runs --------------------------------------
\* the strategies in the chain of orchestrator c
Chained(c) == {c.strategies[i] : i \in DOMAIN c.strategies}
\* the strategy that a step made the active one of run r, if any
Pulled(r) ==
    IF runs'[r].st = None \/ runs'[r].st.strategy = NoStrategy THEN {}
    ELSE IF runs[r].st # None /\ runs[r].st.strategy = runs'[r].st.strategy
         THEN {} ELSE {runs'[r].st.strategy}

\* C35: the chain of an orchestrator only ever shrinks, over all its runs;
\* the strategy a run makes active is taken out of the chain in that step,
\* so no later run can pull it, stopped or not; and a run that finds the
\* chain empty when its first attempt has failed ends in RetryExaustedError
\* after that one invocation.
C35_ChainConsumed ==
    /\ [][ \A c \in DOMAIN orchs :
             Chained(orchs'[c]) \subseteq Chained(orchs[c]) ]_vars
    /\ [][ \A r \in DOMAIN runs : \A id \in Pulled(r) :
             /\ id \in Chained(orchs[runs[r].orch])
             /\ id \notin Chained(orchs'[runs[r].orch]) ]_vars
    /\ [][ \A r \in DOMAIN runs :
             ( /\ runs[r].pc = "Evaluating" /\ runs[r].calls = 1
               /\ runs[r].last.type = "exc"
               /\ runs[r].st.strategy = NoStrategy
               /\ orchs[runs[r].orch].strategies = <<>> )
             => /\ runs'[r].pc = "Exhausted"
                /\ RetryExhausted(runs'[r].result)
                /\ runs'[r].calls = 1 ]_vars

\* the first run returned with its strategy still live; the second run met
\* the emptied chain and is exhausted after one invocation, where the same
\* call on a fresh orchestrator goes on to another attempt
C35_Witness ==
    /\ Len(runs) = 2 /\ Len(orchs) = 1
    /\ runs[1].pc = "Succeeded"
    /\ runs[1].st.strategy # NoStrategy
    /\ ~Strategy_should_stop(strat[runs[1].st.strategy])
    /\ runs[2].pc = "Exhausted" /\ runs[2].calls = 1
    /\ twin[2].w.pc = "Attempting"

\* ---- the decorator ------------------------------------------------------
RECURSIVE Evals(_, _)
\* the applications of strategy id in the log `log`
Evals(log, id) ==
    IF log = <<>> THEN 0
    ELSE (IF Head(log).ev = "eval" /\ Head(log).i = id THEN 1 ELSE 0)
         + Evals(Tail(log), id)

RECURSIVE Total(_, _)
\* the applications of strategy id over the runs 1..n
Total(n, id) == IF n = 0 THEN 0 ELSE Evals(runs[n].log, id) + Total(n - 1, id)

\* C36: over the calls of a decorated function, the counter of each strategy
\* given to the decorator is the number of its applications in all calls
\* together and never passes its limit; and a call whose first attempt fails
\* when the first strategy of the list is already stopped ends in
\* RetryExaustedError after that one invocation, whatever the later
\* strategies have left.
C36_DecoratorSharesStrategies ==
    /\ [](\A id \in DOMAIN strat :
            /\ Total(Len(runs), id) = strat[id].current_attempt
            /\ Total(Len(runs), id) <= strat[id].attempts)
    /\ [][ \A r \in DOMAIN runs :
             ( /\ runs[r].pc = "Evaluating" /\ runs[r].calls = 1
               /\ runs[r].last.type = "exc"
               /\ strat # <<>> /\ Strategy_should_stop(strat[1]) )
             => /\ runs'[r].pc = "Exhausted"
                /\ RetryExhausted(runs'[r].result)
                /\ runs'[r].calls = 1
                /\ strat' = strat ]_vars

\* the first call used up the first strategy and part of the second; the
\* second call is exhausted after one invocation, the second strategy still
\* live
C36_Witness ==
    /\ Len(runs) = 2 /\ Len(orchs) = 2 /\ Len(strat) = 2
    /\ runs[1].pc = "Succeeded" /\ runs[1].evals = 2
    /\ strat[1].attempts >= 1
    /\ Strategy_should_stop(strat[1]) /\ ~Strategy_should_stop(strat[2])
    /\ runs[2].pc = "Exhausted" /\ runs[2].calls = 1
    /\ runs[2].result.cause.type = "exc"

\* ---- the counter of a strategy -------------------------------------------
\* C34: the counter of a strategy built with limit N >= 0 starts at 0, stays
\* within 0..N and never goes down, whether a caller applies the strategy
\* directly, past its limit too, or orchestrators apply it over several
\* runs.
C34_CounterWithinLimit ==
    /\ [](\A id \in DOMAIN strat :
            /\ strat[id].attempts >= 0
            /\ 0 <= strat[id].current_attempt
            /\ strat[id].current_attempt <= strat[id].attempts)
    /\ [][ \A id \in DOMAIN strat :
             strat'[id].current_attempt >= strat[id].current_attempt ]_vars

\* applied directly past its limit: the application raised and the counter
\* stands at the limit
C34_Witness ==
    /\ pc = "Direct"
    /\ evals > strat[1].attempts
    /\ strat[1].attempts >= 1
    /\ strat[1].current_attempt = strat[1].attempts
    /\ result.type = "raise"

\* applied in two runs: the second run found the strategy part used and
\* took it to its limit
C34_WitnessRuns ==
    /\ Len(runs) = 2
    /\ runs[1].pc = "Succeeded" /\ runs[1].evals = 1
    /\ runs[2].pc = "Exhausted" /\ runs[2].evals = 1
    /\ Len(strat) = 1 /\ strat[1].current_attempt = 2

\* ---- eligibility by class -------------------------------------------------
\* the class of the failure is itself in on_exceptions, or there is no filter
Listed(o) == on_exceptions = {} \/ o.kind \in on_exceptions

\* C37: a failure is retry-eligible exactly when on_exceptions is absent or
\* empty or holds the failure's own class.  An eligible failure goes to the
\* strategies (one is applied, or the run is exhausted with the chain used
\* up or a stopped strategy in the slot); any other failure, one whose base
\* class is listed included, ends the run with RetryExaustedError caused by
\* it, no strategy pulled or applied.
C37_ExactKind ==
    [][ (pc = "Evaluating" /\ lastOutcome.type = "exc")
        => IF Listed(lastOutcome)
           THEN \/ evals' = evals + 1 /\ pc' = "Attempting"
                \/ /\ pc' = "Exhausted" /\ evals' = evals
                   /\ \/ state.strategy = NoStrategy /\ strategies = <<>>
                      \/ state'.strategy # NoStrategy
                         /\ Strategy_should_stop(strat[state'.strategy])
           ELSE /\ pc' = "Exhausted" /\ RetryExhausted(result')
                /\ result'.cause = lastOutcome
                /\ evals' = evals
                /\ strategies' = strategies /\ strat' = strat
                /\ state'.strategy = state.strategy ]_vars

\* on_exceptions lists LookupError only and the operation raised KeyError:
\* the run is over after one invocation, its strategy unused
C37_Witness ==
    /\ pc = "Exhausted"
    /\ on_exceptions = {"LookupError"}
    /\ lastOutcome.type = "exc" /\ lastOutcome.kind = "KeyError"
    /\ calls = 1 /\ evals = 0
    /\ Len(strategies) = 1 /\ strat[1].attempts = 2
    /\ result.cause = lastOutcome

\* ---- a matching strategy without a limit ---------------------------------
Unlimited(s) == s.kind = "StopWhenReturnValueStrategy" /\ s.attempts = NoLimit
\* the strategy that the next application falls to: the active one, or the
\* one the chain gives when the slot is empty
Facing ==
    IF state.strategy # NoStrategy THEN state.strategy
    ELSE IF strategies # <<>> THEN pop(strategies).item ELSE NoStrategy

\* C38: a StopWhenReturnValueStrategy without max_attempts, once active, is
\* never stopped and stays the active strategy.  Each eligible failure that
\* falls to it is answered by a new attempt, so a run whose operation only
\* fails that way never ends; the strategies behind it stay in the chain,
\* unused.  The run ends only with a returned value or an ineligible
\* failure.
C38_UnlimitedNeverExhausted ==
    /\ [](\A id \in DOMAIN strat : Unlimited(strat[id])
            => ~Strategy_should_stop(strat[id]) /\ strat[id].current_attempt = 0)
    /\ [][ ( /\ pc = "Evaluating" /\ Facing # NoStrategy
             /\ Unlimited(strat[Facing])
             /\ lastOutcome.type = "exc" /\ Listed(lastOutcome) )
           => /\ pc' = "Attempting"
              /\ evals' = evals + 1
              /\ state'.strategy = Facing ]_vars
    /\ [][ ( /\ pc \in {"Attempting", "Evaluating"}
             /\ state.strategy # NoStrategy /\ Unlimited(strat[state.strategy]) )
           => /\ state'.strategy = state.strategy
              /\ strategies' = strategies
              /\ \A id \in InChain : strat'[id] = strat[id]
              /\ pc' = "Exhausted" => ~Listed(lastOutcome)
              /\ pc' = "Succeeded" => lastOutcome.type = "val" ]_vars

\* followed for as many invocations as the model makes, every one of them
\* failed: the run is at its next attempt, the strategy active, the counting
\* strategy behind it still in the chain
C38_Witness ==
    /\ pc = "Attempting"
    /\ calls = MaxInvocations /\ evals = MaxInvocations
    /\ state.strategy = 1 /\ Unlimited(strat[1])
    /\ Len(strat) = 2 /\ InChain = {2}
    /\ strat[2].attempts >= 1 /\ strat[2].current_attempt = 0

\* the same with the strategy second in the chain, reached after the first
\* one stopped
C38_WitnessSecond ==
    /\ pc = "Attempting"
    /\ calls = MaxInvocations
    /\ state.strategy = 2 /\ Unlimited(strat[2])
    /\ strat[1].current_attempt >= 1

\* ---- two runs on one orchestrator ----------------------------------------
\* the strategy in the active slot of run r, if any
Active(r) ==
    IF runs[r].st = None \/ runs[r].st.strategy = NoStrategy THEN {}
    ELSE {runs[r].st.strategy}

\* C39: of two concurrent runs on one AsyncRetry object, no strategy is in
\* the active slot of both, and a strategy in a slot is out of the shared
\* chain; the applications of the two runs together are at most the sum of
\* the limits, and their invocations at most two more than that.
C39_SharedChainSplit ==
    /\ \A r, q \in DOMAIN runs : r # q => Active(r) \cap Active(q) = {}
    /\ \A r \in DOMAIN runs : Active(r) \cap Chained(orchs[runs[r].orch]) = {}
    /\ runs[1].evals + runs[2].evals <= Limits
    /\ runs[1].calls + runs[2].calls <= 2 + Limits
    /\ \A id \in DOMAIN strat :
          Total(Len(runs), id) = strat[id].current_attempt

\* the two runs, their attempts interleaved, hold one strategy each, both
\* applied, the chain empty
C39_Witness ==
    /\ Len(orchs) = 1 /\ Len(runs) = 2 /\ Len(strat) = 2
    /\ runs[1].evals >= 1 /\ runs[2].evals >= 1
    /\ Active(1) # {} /\ Active(2) # {} /\ Active(1) # Active(2)
    /\ orchs[1].strategies = <<>>
    /\ runs[1].st.start_time < runs[2].st.end_time
    /\ runs[2].st.start_time < runs[1].st.end_time

\* both runs are exhausted, having together used every attempt the chain
\* allows
C39_WitnessAllUsed ==
    /\ Len(orchs) = 1 /\ Len(runs) = 2 /\ Len(strat) = 2
    /\ runs[1].pc = "Exhausted" /\ runs[2].pc = "Exhausted"
    /\ runs[1].evals >= 1 /\ runs[2].evals >= 1
    /\ Limits >= 3
    /\ runs[1].evals + runs[2].evals = Limits
    /\ runs[1].calls + runs[2].calls = 2 + Limits
====
